---- MODULE Spec2Model ----
(***************************************************************************)
(* Model of the Nexus AI Browser personalization core:                     *)
(*   PersonalizationEngine (interest / preference / personality tracking   *)
(*   over a Dexie store), RealTimeAnalyzer.inferUserMood and               *)
(*   ContextualAI.inferMoodFromInteractions.                               *)
(*                                                                         *)
(* Numbers that are JavaScript doubles in [0,1] in the source are          *)
(* fixed-point integers here: the value 1.0 is One, products are           *)
(* truncated to a multiple of 1/One.                                       *)
(***************************************************************************)
EXTENDS Integers, Sequences, FiniteSets, TLC

VARIABLES
    db,                 \* the Dexie database: one sequence of records per table
    recentInteractions, \* PersonalizationEngine.recentInteractions
    userProfile,        \* PersonalizationEngine.userProfile (in memory)
    loadedProfile,      \* what the last getUserProfile() returned, and when
    now,                \* Date.now(), in clock ticks
    visitsDone,         \* number of updateFromPageVisit calls that returned
    lastVisit,          \* the input of the last completed visit
    scen,               \* bookkeeping of the scenario A / scenario B runs
    procs,              \* the updateFromPageVisit calls in flight, one record each
    db0,                \* the store as it was when those calls were issued
    sched,              \* the call that ran last and the preemptions so far
    userMoodHistory,    \* RealTimeAnalyzer.userMoodHistory
    moodCalls,          \* every sample inferUserMood produced, in call order
    lastMood,           \* what the last inferUserMood() returned
    sessionInteractions,\* ContextualAI.userContext.session.interactions
    personalMood,       \* ContextualAI.userContext.personal.mood
    retrained,          \* number of retrainModels() runs
    engine,             \* PersonalizationEngine: shutdown progress, store open, weights
    analyzer,           \* RealTimeAnalyzer: isInitialized, activeAnalyses, ...
    timers,             \* the setInterval timers: runs of each callback
    collector,          \* DataCollector: isInitialized and its Dexie store
    nav,                \* the last analyzePage / handlePageNavigation call and its outcome
    personalized,       \* the last getPersonalizedContent() call and its result
    privacy,            \* the privacy:clearData calls made and the options of the last
    requests,           \* the handlers in flight that call inferUserMood
    tabManager          \* TabManager: tabs, activeTabId, tabCounter

vars == << db, recentInteractions, userProfile, loadedProfile, now, visitsDone,
           lastVisit, scen, procs, db0, sched, userMoodHistory, moodCalls,
           lastMood, sessionInteractions, personalMood, retrained, engine,
           analyzer, timers, collector, nav, personalized, privacy, requests, tabManager >>

engineVars == << db, recentInteractions, userProfile, loadedProfile, retrained >>
seqVars    == << visitsDone, lastVisit >>
concVars   == << procs, db0, sched >>
moodVars   == << userMoodHistory, moodCalls, lastMood, sessionInteractions,
                 personalMood >>
sysVars    == << engine, analyzer, timers, collector, nav, personalized, privacy,
                 requests, tabManager >>

----------------------------------------------------------------------------
(* Bounds of the model *)

MaxVisits == 2          \* visits per behaviour of Spec
MaxClock == 1           \* clock ticks per behaviour of Spec
MaxPrior == 17          \* visits that built the profile Init starts from
MaxStoreFailures == 1   \* store operations that fail in SpecConc
MaxSwitches == 1        \* times a call is overtaken by another one before it ends
MaxMoodCalls == 52      \* inferUserMood calls per behaviour of SpecMood
MaxMoodClock == 2       \* clock ticks per behaviour of SpecMood
MaxSaves == 3           \* saveUserProfile calls per behaviour of SpecProfile
MaxProfileClock == 2    \* clock ticks per behaviour of SpecProfile
MaxEvents == 6          \* interaction events per behaviour of SpecTelemetry
MaxFewCalls == 2        \* inferUserMood calls per behaviour of SpecTelemetry
ScenarioAVisits == 5    \* length of the scenario A run
ScenarioBVisits == 50   \* length of the scenario B run
MaxTimerFires == 1      \* runs of each timer callback per behaviour of SpecShutdown
MaxNavs == 3            \* analyzePage / handlePageNavigation calls per behaviour of SpecNav
MaxInteractions == 102  \* stored interactions at which SpecRetrain stops
MaxTabs == 4            \* tab ids handed out per behaviour of SpecTabs
MaxTraitVisits == 2     \* visits per behaviour of SpecTraits
MaxTopVisits == 2       \* visits per behaviour of SpecTopInterests
MaxReadings == 2        \* calls of analyzeReadability per behaviour of SpecReadability
MaxWords == 4           \* words of a text
MaxSentences == 2       \* sentences of a text
MaxSyllables == 9       \* syllables of a text
MaxClassifications == 2 \* calls of classifyContent per behaviour of SpecClassify
MaxRequests == 2        \* handlers in flight per behaviour of SpecRequests
MaxRequestClock == 1    \* clock ticks per behaviour of SpecRequests
MaxWeekCalls == 2       \* inferUserMood calls per behaviour of SpecMoodWeek
MaxWeekClock == 21      \* clock ticks per behaviour of SpecMoodWeek (a week)
MaxPredictions == 2     \* predictEngagement calls per behaviour of SpecEngagement
MaxNavClock == 1        \* clock ticks per behaviour of SpecNav
MaxLearnVisits == 3     \* visits per behaviour of SpecLearn
MaxTraitRecords == 3    \* stored personality trait records in SpecAdaptive
MaxContentCalls == 2    \* getPersonalizedContent calls per behaviour
MaxClears == 1          \* privacy:clearData calls per behaviour of SpecPrivacy
MaxCollected == 1       \* interactions recorded by the data collector in SpecPrivacy
MaxPrivacyClock == 4    \* last clock tick of SpecPrivacy (a day is 3 ticks)

----------------------------------------------------------------------------
(* Fixed-point arithmetic *)

One == 10000

Min2(a, b) == IF a <= b THEN a ELSE b

SetMin(S) == CHOOSE x \in S : \A y \in S : x <= y

Mul(a, b) == (a * b) \div One

----------------------------------------------------------------------------
(* Clock: one tick is eight hours, the run starts on a Friday at 02:00 *)

getHours(t) == (2 + t * 8) % 24

getDay(t) == (5 + ((2 + t * 8) \div 24)) % 7

----------------------------------------------------------------------------
(* String.prototype.toLowerCase on the strings the model uses *)

toLowerCase(s) ==
    CASE s = "AI" -> "ai"
      [] s = "Technology" -> "technology"
      [] s = "News" -> "news"
      [] OTHER -> s

(* JSON.stringify / JSON.parse of plain data: the text is kept as a tagged
   value, parse accepts only such a value *)
JSONstringify(o) == << "json", o >>

JSONparse(s) == IF s[1] = "json" THEN s[2] ELSE << >>

----------------------------------------------------------------------------
(* The Dexie store.  Every table has an auto-incremented primary key and
   non-unique secondary indexes. *)

EmptyDB ==
    [ userProfiles      |-> << >>,
      interactions      |-> << >>,
      preferences       |-> << >>,
      behaviorPatterns  |-> << >>,
      interests         |-> << >>,
      personalityTraits |-> << >> ]

(* table.add(obj) / table.put(obj) of an object without primary key *)
TableAdd(tbl, obj) == Append(tbl, [obj EXCEPT !.id = Len(tbl) + 1])

(* table.where(field).equals(v).first(): the record with the lowest primary
   key among the matching ones (S is the set of their positions), as a
   sequence of zero or one record *)
FirstOf(tbl, S) == IF S = {} THEN << >> ELSE << tbl[SetMin(S)] >>

(* faulty variant: the lookup ignores the topic *)
FirstByTopic_AnyTopic(tbl, t) == FirstOf(tbl, 1..Len(tbl))

FirstByTopic(tbl, t) == FirstOf(tbl, { i \in 1..Len(tbl) : tbl[i].topic = t })

FirstByTrait(tbl, t) == FirstOf(tbl, { i \in 1..Len(tbl) : tbl[i].trait = t })

FirstByCategory(tbl, c) == FirstOf(tbl, { i \in 1..Len(tbl) : tbl[i].category = c })

FirstByUserId(tbl, u) == FirstOf(tbl, { i \in 1..Len(tbl) : tbl[i].userId = u })

----------------------------------------------------------------------------
(* PersonalizationEngine.calculateNewInterestStrength *)

decayFactor == 9500

learningRate == 1000

(* faulty variant: no Math.min(1.0, ...) *)
calculateNewInterestStrength_NoCap(currentStrength, engagement, relevance) ==
    LET newEvidence == Mul(engagement, relevance)
    IN  Mul(currentStrength, decayFactor) + Mul(newEvidence, learningRate)

(* faulty variant: the new evidence is not added *)
calculateNewInterestStrength_NoEvidence(currentStrength, engagement, relevance) ==
    Min2(One, Mul(currentStrength, decayFactor))

calculateNewInterestStrength(currentStrength, engagement, relevance) ==
    LET newEvidence == Mul(engagement, relevance)
    IN  Min2(One, Mul(currentStrength, decayFactor) + Mul(newEvidence, learningRate))

(* x || d where x is a number or an object: 0 (and undefined, modelled as 0)
   selects the default, every other value is kept *)
OrNum(x, d) == IF ToString(x) = "0" THEN d ELSE x

(* x || d on a string: "" (and undefined, modelled as "") selects the default *)
OrStr(x, d) == IF x = "" THEN d ELSE x

(* updateInterests: const engagement = analysis.engagement || 0.5 *)
EngagementOf(analysis) == OrNum(analysis.engagement, 5000)

(* updateInterests, keyword branch: the write that follows the lookup.
   existing is the result of the lookup (zero or one record). *)
KeywordWrite(tbl, existing, keyword, analysis, t) ==
    LET engagement == OrNum(analysis.engagement, 5000)
    IN  IF existing # << >>
        THEN LET old == existing[1]
                 newStrength == calculateNewInterestStrength(
                                   old.strength, engagement,
                                   OrNum(analysis.relevance, 5000))
             IN  [tbl EXCEPT ![old.id] =
                    [@ EXCEPT !.strength = newStrength,
                              !.lastUpdated = t,
                              !.evolution = Append(old.evolution,
                                  [timestamp |-> t, strength |-> newStrength,
                                   context |-> analysis.category])]]
        ELSE TableAdd(tbl,
                [id |-> 0,
                 topic |-> toLowerCase(keyword),
                 strength |-> Mul(engagement, 3000),
                 evolution |-> << [timestamp |-> t,
                                   strength |-> Mul(engagement, 3000),
                                   context |-> analysis.category] >>,
                 lastUpdated |-> t])

(* updateInterests, category branch: the write that follows the lookup *)
(* faulty variant: a new category interest starts at engagement * 0.3 *)
CategoryWrite_KeywordStrength(tbl, existing, analysis, t) ==
    LET engagement == OrNum(analysis.engagement, 5000)
    IN  IF existing # << >>
        THEN LET old == existing[1]
                 newStrength == calculateNewInterestStrength(
                                   old.strength, engagement, 7000)
             IN  [tbl EXCEPT ![old.id] =
                    [@ EXCEPT !.strength = newStrength, !.lastUpdated = t]]
        ELSE TableAdd(tbl,
                [id |-> 0,
                 topic |-> toLowerCase(analysis.category),
                 strength |-> Mul(engagement, 3000),
                 evolution |-> << [timestamp |-> t,
                                   strength |-> Mul(engagement, 3000),
                                   context |-> "category"] >>,
                 lastUpdated |-> t])

CategoryWrite(tbl, existing, analysis, t) ==
    LET engagement == OrNum(analysis.engagement, 5000)
    IN  IF existing # << >>
        THEN LET old == existing[1]
                 newStrength == calculateNewInterestStrength(
                                   old.strength, engagement, 7000)
             IN  [tbl EXCEPT ![old.id] =
                    [@ EXCEPT !.strength = newStrength, !.lastUpdated = t]]
        ELSE TableAdd(tbl,
                [id |-> 0,
                 topic |-> toLowerCase(analysis.category),
                 strength |-> Mul(engagement, 5000),
                 evolution |-> << [timestamp |-> t,
                                   strength |-> Mul(engagement, 5000),
                                   context |-> "category"] >>,
                 lastUpdated |-> t])

RECURSIVE KeywordLoop(_, _, _, _)
KeywordLoop(tbl, i, analysis, t) ==
    IF i > Len(analysis.keywords) THEN tbl
    ELSE LET keyword == analysis.keywords[i]
             existing == FirstByTopic(tbl, toLowerCase(keyword))
         IN  KeywordLoop(KeywordWrite(tbl, existing, keyword, analysis, t),
                         i + 1, analysis, t)

(* PersonalizationEngine.updateInterests, run without interruption *)
updateInterests(tbl, analysis, t) ==
    LET afterKeywords == KeywordLoop(tbl, 1, analysis, t)
    IN  IF analysis.category # ""
        THEN CategoryWrite(afterKeywords,
                 FirstByTopic(afterKeywords, toLowerCase(analysis.category)),
                 analysis, t)
        ELSE afterKeywords

----------------------------------------------------------------------------
(* PersonalizationEngine.recordInteraction: the store insert *)
InteractionAdd(tbl, type, data, t) ==
    TableAdd(tbl,
        [id |-> 0,
         timestamp |-> t,
         type |-> type,
         data |-> JSONstringify(data),
         context |-> JSONstringify([timeOfDay |-> getHours(t),
                                    dayOfWeek |-> getDay(t)])])

(* PersonalizationEngine.recordInteraction: the in-memory list, kept to the
   last 100 entries *)
SliceLast(s, n) == IF Len(s) > n THEN SubSeq(s, Len(s) - n + 1, Len(s)) ELSE s

(* faulty variant: the list is cut to its first 100 entries *)
RecentPush_KeepFirst(recent, type, data, t) ==
    LET pushed == Append(recent, [type |-> type, data |-> data, timestamp |-> t])
    IN  IF Len(pushed) > 100 THEN SubSeq(pushed, 1, 100) ELSE pushed

RecentPush(recent, type, data, t) ==
    SliceLast(Append(recent, [type |-> type, data |-> data, timestamp |-> t]), 100)

(* the data object updateFromPageVisit hands to recordInteraction *)
VisitInteractionData(pageData, analysis) ==
    [url |-> pageData.url,
     title |-> pageData.title,
     category |-> analysis.category,
     timeSpent |-> pageData.timeSpent,
     engagement |-> OrNum(analysis.engagement, 5000),
     keywords |-> analysis.keywords,
     sentiment |-> OrStr(analysis.sentiment, "neutral")]

(* PersonalizationEngine.updateBehaviorPatterns *)
(* faulty variant: a visit whose snapshot is already stored raises the
   frequency of that record, and adds none *)
updateBehaviorPatterns_Merging(tbl, pageData, analysis, t) ==
    LET patterns ==
          [timePreference |-> [hour |-> getHours(t), dayOfWeek |-> getDay(t),
                               sessionLength |-> pageData.timeSpent],
           contentPreference |-> [category |-> analysis.category,
                                  complexity |-> OrStr(analysis.complexity, "medium"),
                                  format |-> OrStr(analysis.format, "article")],
           interactionStyle |-> [engagement |-> OrNum(analysis.engagement, 5000),
                                 scrollDepth |-> OrNum(analysis.scrollDepth, 5000),
                                 clickPattern |-> OrStr(analysis.clickPattern, "normal")]]
        same == { i \in 1..Len(tbl) : tbl[i].pattern = JSONstringify(patterns) }
    IN  IF same # {}
        THEN [tbl EXCEPT ![SetMin(same)].frequency = @ + 1]
        ELSE TableAdd(tbl,
                [id |-> 0,
                 pattern |-> JSONstringify(patterns),
                 frequency |-> 1,
                 contexts |-> << [timestamp |-> t, url |-> pageData.url,
                                  category |-> analysis.category] >>,
                 strength |-> One])

updateBehaviorPatterns(tbl, pageData, analysis, t) ==
    LET patterns ==
          [timePreference |-> [hour |-> getHours(t), dayOfWeek |-> getDay(t),
                               sessionLength |-> pageData.timeSpent],
           contentPreference |-> [category |-> analysis.category,
                                  complexity |-> OrStr(analysis.complexity, "medium"),
                                  format |-> OrStr(analysis.format, "article")],
           interactionStyle |-> [engagement |-> OrNum(analysis.engagement, 5000),
                                 scrollDepth |-> OrNum(analysis.scrollDepth, 5000),
                                 clickPattern |-> OrStr(analysis.clickPattern, "normal")]]
    IN  TableAdd(tbl,
            [id |-> 0,
             pattern |-> JSONstringify(patterns),
             frequency |-> 1,
             contexts |-> << [timestamp |-> t, url |-> pageData.url,
                              category |-> analysis.category] >>,
             strength |-> One])

(* PersonalizationEngine.inferPersonalityTraits; the order of the traits is
   the insertion order of the object literal *)
TraitNames == << "openness", "conscientiousness", "extraversion",
                 "agreeableness", "neuroticism" >>

(* faulty variant: an education or arts page adds 0.3 to openness *)
inferPersonalityTraits_Strong(pageData, analysis) ==
    [openness |->
        5000 + (IF analysis.category \in {"education", "arts"} THEN 3000 ELSE 0)
             + (IF analysis.complexity = "high" THEN 500 ELSE 0),
     conscientiousness |->
        5000 + (IF analysis.category \in {"productivity", "business"} THEN 1000 ELSE 0)
             + (IF pageData.timeSpent > 300 THEN 500 ELSE 0),
     extraversion |->
        5000 + (IF analysis.category \in {"social", "communication"} THEN 1000 ELSE 0),
     agreeableness |-> 5000,
     neuroticism |->
        5000 + (IF analysis.sentiment = "negative" \/ analysis.category = "news"
                THEN 500 ELSE 0)]

inferPersonalityTraits(pageData, analysis) ==
    [openness |->
        5000 + (IF analysis.category \in {"education", "arts"} THEN 1000 ELSE 0)
             + (IF analysis.complexity = "high" THEN 500 ELSE 0),
     conscientiousness |->
        5000 + (IF analysis.category \in {"productivity", "business"} THEN 1000 ELSE 0)
             + (IF pageData.timeSpent > 300 THEN 500 ELSE 0),
     extraversion |->
        5000 + (IF analysis.category \in {"social", "communication"} THEN 1000 ELSE 0),
     agreeableness |-> 5000,
     neuroticism |->
        5000 + (IF analysis.sentiment = "negative" \/ analysis.category = "news"
                THEN 500 ELSE 0)]

(* updatePersonalityInference: the write that follows the lookup of a trait *)
(* faulty variant: the inferred score replaces the stored one *)
TraitWrite_Replace(tbl, existing, trait, score, t) ==
    IF existing # << >>
    THEN LET old == existing[1]
         IN  [tbl EXCEPT ![old.id] =
                [@ EXCEPT !.score = score,
                          !.confidence = Min2(One, old.confidence + 100),
                          !.lastUpdated = t]]
    ELSE TableAdd(tbl, [id |-> 0, trait |-> trait, score |-> score,
                        confidence |-> 1000, lastUpdated |-> t])

TraitWrite(tbl, existing, trait, score, t) ==
    IF existing # << >>
    THEN LET old == existing[1]
             newScore == Mul(old.score, 9000) + Mul(score, 1000)
             newConfidence == Min2(One, old.confidence + 100)
         IN  [tbl EXCEPT ![old.id] =
                [@ EXCEPT !.score = newScore, !.confidence = newConfidence,
                          !.lastUpdated = t]]
    ELSE TableAdd(tbl, [id |-> 0, trait |-> trait, score |-> score,
                        confidence |-> 1000, lastUpdated |-> t])

RECURSIVE TraitLoop(_, _, _, _)
TraitLoop(tbl, i, traits, t) ==
    IF i > Len(TraitNames) THEN tbl
    ELSE LET trait == TraitNames[i]
         IN  TraitLoop(TraitWrite(tbl, FirstByTrait(tbl, trait), trait,
                                  traits[trait], t),
                       i + 1, traits, t)

(* PersonalizationEngine.updatePersonalityInference, run without interruption *)
updatePersonalityInference(tbl, pageData, analysis, t) ==
    TraitLoop(tbl, 1, inferPersonalityTraits(pageData, analysis), t)

(* updateContentPreferences: the observed preference per category; booleans
   are written as the strings "true" and "false" *)
PreferenceNames == << "format", "length", "complexity", "visualContent",
                      "interactivity" >>

ObservedPreferences(analysis) ==
    [format |-> OrStr(analysis.format, "article"),
     length |-> OrStr(analysis.length, "medium"),
     complexity |-> OrStr(analysis.complexity, "medium"),
     visualContent |-> IF analysis.hasImages THEN "true" ELSE "false",
     interactivity |-> IF analysis.hasInteractiveElements THEN "true" ELSE "false"]

(* faulty variant: the confidence is not capped by Math.min(1.0, ...) *)
PreferenceWrite_NoCap(tbl, existing, category, preference, t) ==
    IF existing # << >>
    THEN LET old == existing[1]
             newWeight == Mul(old.weight, 9000)
                          + Mul(1000, IF preference = old.preference THEN One ELSE 0)
         IN  [tbl EXCEPT ![old.id] =
                [@ EXCEPT !.weight = newWeight, !.confidence = old.confidence + 100,
                          !.lastUpdated = t]]
    ELSE TableAdd(tbl, [id |-> 0, category |-> category, preference |-> preference,
                        weight |-> 1000, confidence |-> 1000, lastUpdated |-> t])

(* faulty variant: an update adopts the value observed in the visit *)
PreferenceWrite_Adopt(tbl, existing, category, preference, t) ==
    IF existing # << >>
    THEN LET old == existing[1]
             newWeight == Mul(old.weight, 9000)
                          + Mul(1000, IF preference = old.preference THEN One ELSE 0)
             newConfidence == Min2(One, old.confidence + 100)
         IN  [tbl EXCEPT ![old.id] =
                [@ EXCEPT !.preference = preference,
                          !.weight = newWeight, !.confidence = newConfidence,
                          !.lastUpdated = t]]
    ELSE TableAdd(tbl, [id |-> 0, category |-> category, preference |-> preference,
                        weight |-> 1000, confidence |-> 1000, lastUpdated |-> t])

(* updateContentPreferences: the write that follows the lookup *)
PreferenceWrite(tbl, existing, category, preference, t) ==
    IF existing # << >>
    THEN LET old == existing[1]
             newWeight == Mul(old.weight, 9000)
                          + Mul(1000, IF preference = old.preference THEN One ELSE 0)
             newConfidence == Min2(One, old.confidence + 100)
         IN  [tbl EXCEPT ![old.id] =
                [@ EXCEPT !.weight = newWeight, !.confidence = newConfidence,
                          !.lastUpdated = t]]
    ELSE TableAdd(tbl, [id |-> 0, category |-> category, preference |-> preference,
                        weight |-> 1000, confidence |-> 1000, lastUpdated |-> t])

RECURSIVE PreferenceLoop(_, _, _, _)
PreferenceLoop(tbl, i, observed, t) ==
    IF i > Len(PreferenceNames) THEN tbl
    ELSE LET category == PreferenceNames[i]
         IN  PreferenceLoop(PreferenceWrite(tbl, FirstByCategory(tbl, category),
                                            category, observed[category], t),
                            i + 1, observed, t)

(* PersonalizationEngine.updateContentPreferences, run without interruption *)
updateContentPreferences(tbl, analysis, t) ==
    PreferenceLoop(tbl, 1, ObservedPreferences(analysis), t)

(* PersonalizationEngine.checkAndRetrain: 1 when retrainModels runs *)
checkAndRetrain(interactionsTbl) ==
    IF Len(interactionsTbl) % 100 = 0 THEN 1 ELSE 0

(* PersonalizationEngine.updateFromPageVisit with no other call in flight and
   no store failure: the store after the call *)
updateFromPageVisit(d, v, t) ==
    [d EXCEPT
        !.interactions = InteractionAdd(@, "page_visit",
                                        VisitInteractionData(v.pageData, v.analysis), t),
        !.interests = updateInterests(@, v.analysis, t),
        !.behaviorPatterns = updateBehaviorPatterns(@, v.pageData, v.analysis, t),
        !.personalityTraits = updatePersonalityInference(@, v.pageData, v.analysis, t),
        !.preferences = updateContentPreferences(@, v.analysis, t)]

----------------------------------------------------------------------------
(* Inputs of updateFromPageVisit.  A field the caller leaves undefined is ""
   (strings), 0 (numbers) or FALSE (booleans); the code treats both alike. *)

BaseAnalysis ==
    [keywords |-> << >>, category |-> "", engagement |-> 0, relevance |-> 0,
     complexity |-> "", format |-> "", length |-> "", hasImages |-> FALSE,
     hasInteractiveElements |-> FALSE, sentiment |-> "", scrollDepth |-> 0,
     clickPattern |-> ""]

BasePage == [url |-> "https://site.example/", title |-> "page", timeSpent |-> 0]

MkVisit(keywords, category, engagement, relevance) ==
    [pageData |-> BasePage,
     analysis |-> [BaseAnalysis EXCEPT !.keywords = keywords,
                                       !.category = category,
                                       !.engagement = engagement,
                                       !.relevance = relevance]]

NoVisit == MkVisit(<< >>, "", 0, 0)

(* the topics a visit gives evidence for *)
TopicsOf(v) ==
    { toLowerCase(v.analysis.keywords[i]) : i \in 1..Len(v.analysis.keywords) }
    \cup (IF v.analysis.category # "" THEN {toLowerCase(v.analysis.category)} ELSE {})

SeqVisits ==
    { MkVisit(k, c, e, r) :
        k \in { << >>, << "AI" >>, << "Technology", "technology" >> },
        c \in { "", "technology", "News" },
        e \in { 0, One },
        r \in { 0, One } }

(* the visit that built up the profile a behaviour starts from *)
PriorVisit == MkVisit(<< >>, "technology", One, 0)

RECURSIVE PriorDB(_)
PriorDB(k) ==
    IF k = 0 THEN EmptyDB ELSE updateFromPageVisit(PriorDB(k - 1), PriorVisit, 0)

RECURSIVE PriorRecent(_)
PriorRecent(k) ==
    IF k = 0 THEN << >>
    ELSE RecentPush(PriorRecent(k - 1), "page_visit",
                    VisitInteractionData(PriorVisit.pageData, PriorVisit.analysis), 0)

RECURSIVE PriorRetrained(_)
PriorRetrained(k) ==
    IF k = 0 THEN 0
    ELSE PriorRetrained(k - 1) + checkAndRetrain(PriorDB(k).interactions)

(* PersonalizationEngine constructor *)
DefaultProfile ==
    [id |-> "user_001", interests |-> << >>, browsingPatterns |-> << >>,
     preferences |-> << >>, behaviorModel |-> "null", personality |-> << >>,
     workPatterns |-> << >>, contentPreferences |-> << >>, socialGraph |-> << >>,
     learningStyle |-> "adaptive",
     lastUpdated |-> -1]     \* -1: the field is absent

(* the stored strength of a topic, 0 when the topic has no record *)
StrengthOf(tbl, topic) ==
    LET S == { i \in 1..Len(tbl) : tbl[i].topic = topic }
    IN  IF S = {} THEN 0 ELSE tbl[SetMin(S)].strength

AllTopics == { "ai", "technology", "news" }

----------------------------------------------------------------------------
(* Initial values of the parts a specification does not use *)

EngineIdle(k) ==
    /\ db = PriorDB(k)
    /\ recentInteractions = PriorRecent(k)
    /\ retrained = PriorRetrained(k)
    /\ userProfile = DefaultProfile
    /\ loadedProfile = [value |-> DefaultProfile, saves |-> 0, calls |-> 0]

SeqIdle == visitsDone = 0 /\ lastVisit = NoVisit

ScenIdle ==
    scen = [phase |-> "idle", count |-> 0, startA |-> 0, startB |-> 0,
            unrelated |-> NoVisit]

ProcsIdle ==
    procs = << >> /\ db0 = EmptyDB /\ sched = [running |-> 0, switches |-> 0]

MoodIdle ==
    /\ userMoodHistory = << >>
    /\ moodCalls = << >>
    /\ lastMood = [mood |-> "neutral", confidence |-> 5000]
    /\ sessionInteractions = << >>
    /\ personalMood = "neutral"

(* the setInterval callbacks of PersonalizationEngine.startContinuousLearning
   and RealTimeAnalyzer.startBackgroundProcesses *)
EngineTimers == { "analyzeRecentPatterns", "saveUserProfile" }

AnalyzerTimers == { "cleanupOldAnalyses", "updateContextualFactors" }

TimerNames == EngineTimers \cup AnalyzerTimers

(* RealTimeAnalyzer constructor: this.contextualFactors = {} *)
NoFactors == [timeOfDay |-> -1, dayOfWeek |-> -1, currentMood |-> ""]

(* DataCollector constructor: this.db = null, this.isInitialized = false; the
   tables are those of DataCollector.initializeDatabase that the model uses *)
NoCollector ==
    [isInitialized |-> FALSE, dbOpen |-> FALSE,
     pageViews |-> << >>, interactions |-> << >>, performanceMetrics |-> << >>,
     lastKey |-> [pageViews |-> 0, interactions |-> 0, performanceMetrics |-> 0]]

(* what collectPageData returns before DataCollector.initialize(): null *)
NullPage == [isNull |-> TRUE]

NoAnalysis == [none |-> TRUE]

(* no analyzePage / handlePageNavigation call has been made *)
NoNav == [count |-> 0, kind |-> "none", threw |-> FALSE, pageData |-> NullPage,
          analysis |-> NoAnalysis, storeFailed |-> FALSE, sent |-> FALSE,
          prev |-> [threw |-> FALSE, pageData |-> NullPage, analysis |-> NoAnalysis]]

NoContent ==
    [calls |-> 0, pc |-> "idle", interests |-> << >>, preferences |-> << >>,
     threw |-> FALSE, value |-> [none |-> TRUE]]

NoPrivacy == [calls |-> 0,
              options |-> [clearAll |-> FALSE, days |-> 0, pageViews |-> FALSE,
                           interactions |-> FALSE]]

(* no handler is in flight; prior is the number of inferUserMood calls made
   before the behaviour starts *)
NoRequests == [prior |-> 0, handlers |-> << >>]

(* TabManager after its constructor: tabs holds the tabs in insertion order,
   activeTabId 0 is null, a tab id 'tab-n' is the number n.  issued (the ids
   handed out so far) and last (the last call and what it returned) are not
   fields of the class. *)
NoTabs == [tabs |-> << >>, activeTabId |-> 0, tabCounter |-> 0,
           issued |-> << >>, last |-> [op |-> "none", tabId |-> 0, returned |-> 0]]

SysIdle ==
    /\ engine = [shutdown |-> "idle", dbOpen |-> TRUE, adaptiveWeights |-> {},
                 pcAtSave |-> "none", pcAtClose |-> "none"]
    /\ analyzer = [isInitialized |-> TRUE, shutdown |-> FALSE,
                   activeAnalyses |-> {}, contextualFactors |-> NoFactors]
    /\ timers = [fires |-> [t \in TimerNames |-> 0], late |-> {}]
    /\ collector = NoCollector
    /\ nav = NoNav
    /\ personalized = NoContent
    /\ privacy = NoPrivacy
    /\ requests = NoRequests
    /\ tabManager = NoTabs

----------------------------------------------------------------------------
(* Spec: page visits applied one after the other *)

Init ==
    /\ \E k \in {0, MaxPrior} : EngineIdle(k)
    /\ now = 0
    /\ SeqIdle /\ ScenIdle /\ ProcsIdle /\ MoodIdle /\ SysIdle

(* one call of updateFromPageVisit, from entry to return *)
Visit(v) ==
    /\ visitsDone < MaxVisits
    /\ db' = updateFromPageVisit(db, v, now)
    /\ recentInteractions' = RecentPush(recentInteractions, "page_visit",
                                 VisitInteractionData(v.pageData, v.analysis), now)
    /\ retrained' = retrained + checkAndRetrain(db'.interactions)
    /\ visitsDone' = visitsDone + 1
    /\ lastVisit' = v
    /\ UNCHANGED << userProfile, loadedProfile, now, scen >>
    /\ UNCHANGED concVars
    /\ UNCHANGED moodVars
    /\ UNCHANGED sysVars

(* the clock advances *)
TickUpTo(maxClock) ==
    /\ now < maxClock
    /\ now' = now + 1
    /\ UNCHANGED engineVars
    /\ UNCHANGED seqVars
    /\ UNCHANGED scen
    /\ UNCHANGED concVars
    /\ UNCHANGED moodVars
    /\ UNCHANGED sysVars

Tick == TickUpTo(MaxClock)

VisitAny == \E v \in SeqVisits : Visit(v)

Next == VisitAny \/ Tick

Spec == Init /\ [][Next]_vars

----------------------------------------------------------------------------
(* SpecScenario: scenario A (a run of technology visits with engagement 0.8)
   followed by scenario B (a run of visits without technology evidence),
   started from a profile built by 0..MaxPrior earlier visits *)

ScenarioAInputs ==
    { MkVisit(<< >>, "technology", 8000, 0),
      MkVisit(<< "Technology" >>, "technology", 8000, One) }

UnrelatedInputs ==
    { MkVisit(<< >>, "News", One, 0),
      MkVisit(<< "AI" >>, "", 8000, 0) }

InitScenario ==
    /\ \E k \in 0..MaxPrior : EngineIdle(k)
    /\ now = 0
    /\ \E u \in UnrelatedInputs :
          scen = [phase |-> "A", count |-> 0,
                  startA |-> StrengthOf(db.interests, "technology"),
                  startB |-> 0, unrelated |-> u]
    /\ SeqIdle /\ ProcsIdle /\ MoodIdle /\ SysIdle

ApplyVisit(v) ==
    /\ db' = updateFromPageVisit(db, v, now)
    /\ recentInteractions' = RecentPush(recentInteractions, "page_visit",
                                 VisitInteractionData(v.pageData, v.analysis), now)
    /\ retrained' = retrained + checkAndRetrain(db'.interactions)
    /\ visitsDone' = visitsDone + 1
    /\ lastVisit' = v
    /\ UNCHANGED << userProfile, loadedProfile, now >>
    /\ UNCHANGED concVars
    /\ UNCHANGED moodVars
    /\ UNCHANGED sysVars

ScenarioAVisit ==
    /\ scen.phase = "A"
    /\ \E v \in ScenarioAInputs : ApplyVisit(v)
    /\ scen' = [scen EXCEPT !.count = @ + 1,
                            !.phase = IF scen.count + 1 = ScenarioAVisits
                                      THEN "Adone" ELSE "A"]

ScenarioBVisit ==
    /\ scen.phase \in {"Adone", "B"}
    /\ scen.phase = "B" => scen.count < ScenarioBVisits
    /\ ApplyVisit(scen.unrelated)
    /\ scen' = [scen EXCEPT
                  !.phase = "B",
                  !.count = IF scen.phase = "Adone" THEN 1 ELSE @ + 1,
                  !.startB = IF scen.phase = "Adone"
                             THEN StrengthOf(db.interests, "technology") ELSE @]

NextScenario == ScenarioAVisit \/ ScenarioBVisit

SpecScenario == InitScenario /\ [][NextScenario]_vars


----------------------------------------------------------------------------
(* SpecConc: two calls of updateFromPageVisit in flight at once, as
   issued by handlePageNavigation from the onCompleted event without waiting
   for the previous call.  Each awaited store operation is one step; a store
   operation may fail, which ends the call in its catch block. *)

ConcInputs ==
    { MkVisit(<< "AI" >>, "technology", One, 0),
      MkVisit(<< "AI" >>, "technology", 8000, 0) }

UrlOf(p) == IF p = 1 THEN "https://site.example/1" ELSE "https://site.example/2"

Calls == {1, 2}

InitConc ==
    /\ EngineIdle(1)
    /\ db0 = db
    /\ sched = [running |-> 0, switches |-> 0]
    /\ \E vs \in [Calls -> ConcInputs] :
          procs = [p \in Calls |->
                     [v |-> [vs[p] EXCEPT !.pageData.url = UrlOf(p)],
                      pc |-> "record", i |-> 1, existing |-> << >>]]
    /\ now = 0
    /\ SeqIdle /\ ScenIdle /\ MoodIdle /\ SysIdle

AfterKeywords(v) == IF v.analysis.category # "" THEN "catRead" ELSE "pattern"

AfterRecord(v) == IF Len(v.analysis.keywords) > 0 THEN "kwRead" ELSE AfterKeywords(v)

(* call p takes its next step: it resumes where it awaited.  A call that
   overtakes another one that has not returned counts as a preemption. *)
Goto(p, pc, i, existing) ==
    LET free == IF sched.running \in {0, p} THEN TRUE
                ELSE procs[sched.running].pc \in {"done", "failed"}
    IN  /\ IF free THEN TRUE ELSE sched.switches < MaxSwitches
        /\ sched' = [running |-> p,
                     switches |-> IF free THEN sched.switches
                                  ELSE sched.switches + 1]
        /\ procs' = [procs EXCEPT ![p].pc = pc, ![p].i = i,
                                  ![p].existing = existing]

ConcFrame ==
    /\ UNCHANGED << userProfile, loadedProfile, now, lastVisit, scen, db0 >>
    /\ UNCHANGED moodVars
    /\ UNCHANGED sysVars

(* await this.recordInteraction('page_visit', ...) *)
RecordStep(p) ==
    /\ procs[p].pc = "record"
    /\ db' = [db EXCEPT !.interactions =
                InteractionAdd(@, "page_visit",
                    VisitInteractionData(procs[p].v.pageData, procs[p].v.analysis), now)]
    /\ recentInteractions' =
          RecentPush(recentInteractions, "page_visit",
              VisitInteractionData(procs[p].v.pageData, procs[p].v.analysis), now)
    /\ Goto(p, AfterRecord(procs[p].v), 1, << >>)
    /\ UNCHANGED << retrained, visitsDone >>
    /\ ConcFrame

(* await this.db.interests.where('topic').equals(keyword.toLowerCase()).first() *)
KeywordRead(p) ==
    /\ procs[p].pc = "kwRead"
    /\ Goto(p, "kwWrite", procs[p].i,
            FirstByTopic(db.interests,
                         toLowerCase(procs[p].v.analysis.keywords[procs[p].i])))
    /\ UNCHANGED << db, recentInteractions, retrained, visitsDone >>
    /\ ConcFrame

(* await this.db.interests.update(...) or await this.db.interests.add(...) *)
KeywordWriteStep(p) ==
    /\ procs[p].pc = "kwWrite"
    /\ db' = [db EXCEPT !.interests =
                KeywordWrite(@, procs[p].existing,
                             procs[p].v.analysis.keywords[procs[p].i],
                             procs[p].v.analysis, now)]
    /\ IF procs[p].i < Len(procs[p].v.analysis.keywords)
       THEN Goto(p, "kwRead", procs[p].i + 1, << >>)
       ELSE Goto(p, AfterKeywords(procs[p].v), 1, << >>)
    /\ UNCHANGED << recentInteractions, retrained, visitsDone >>
    /\ ConcFrame

CategoryRead(p) ==
    /\ procs[p].pc = "catRead"
    /\ Goto(p, "catWrite", 1,
            FirstByTopic(db.interests, toLowerCase(procs[p].v.analysis.category)))
    /\ UNCHANGED << db, recentInteractions, retrained, visitsDone >>
    /\ ConcFrame

CategoryWriteStep(p) ==
    /\ procs[p].pc = "catWrite"
    /\ db' = [db EXCEPT !.interests =
                CategoryWrite(@, procs[p].existing, procs[p].v.analysis, now)]
    /\ Goto(p, "pattern", 1, << >>)
    /\ UNCHANGED << recentInteractions, retrained, visitsDone >>
    /\ ConcFrame

(* await this.db.behaviorPatterns.add(...) *)
PatternStep(p) ==
    /\ procs[p].pc = "pattern"
    /\ db' = [db EXCEPT !.behaviorPatterns =
                updateBehaviorPatterns(@, procs[p].v.pageData, procs[p].v.analysis, now)]
    /\ Goto(p, "traitRead", 1, << >>)
    /\ UNCHANGED << recentInteractions, retrained, visitsDone >>
    /\ ConcFrame

TraitRead(p) ==
    /\ procs[p].pc = "traitRead"
    /\ Goto(p, "traitWrite", procs[p].i,
            FirstByTrait(db.personalityTraits, TraitNames[procs[p].i]))
    /\ UNCHANGED << db, recentInteractions, retrained, visitsDone >>
    /\ ConcFrame

TraitWriteStep(p) ==
    /\ procs[p].pc = "traitWrite"
    /\ db' = [db EXCEPT !.personalityTraits =
                TraitWrite(@, procs[p].existing, TraitNames[procs[p].i],
                    inferPersonalityTraits(procs[p].v.pageData,
                                           procs[p].v.analysis)[TraitNames[procs[p].i]],
                    now)]
    /\ IF procs[p].i < Len(TraitNames)
       THEN Goto(p, "traitRead", procs[p].i + 1, << >>)
       ELSE Goto(p, "prefRead", 1, << >>)
    /\ UNCHANGED << recentInteractions, retrained, visitsDone >>
    /\ ConcFrame

PreferenceRead(p) ==
    /\ procs[p].pc = "prefRead"
    /\ Goto(p, "prefWrite", procs[p].i,
            FirstByCategory(db.preferences, PreferenceNames[procs[p].i]))
    /\ UNCHANGED << db, recentInteractions, retrained, visitsDone >>
    /\ ConcFrame

PreferenceWriteStep(p) ==
    /\ procs[p].pc = "prefWrite"
    /\ db' = [db EXCEPT !.preferences =
                PreferenceWrite(@, procs[p].existing, PreferenceNames[procs[p].i],
                    ObservedPreferences(procs[p].v.analysis)[PreferenceNames[procs[p].i]],
                    now)]
    /\ IF procs[p].i < Len(PreferenceNames)
       THEN Goto(p, "prefRead", procs[p].i + 1, << >>)
       ELSE Goto(p, "retrain", 1, << >>)
    /\ UNCHANGED << recentInteractions, retrained, visitsDone >>
    /\ ConcFrame

(* await this.checkAndRetrain(), then the call returns *)
RetrainStep(p) ==
    /\ procs[p].pc = "retrain"
    /\ retrained' = retrained + checkAndRetrain(db.interactions)
    /\ Goto(p, "done", 1, << >>)
    /\ visitsDone' = visitsDone + 1
    /\ UNCHANGED << db, recentInteractions >>
    /\ ConcFrame

(* the awaited store operation rejects: catch (error) { console.error(...) } *)
StoreFailure(p) ==
    /\ procs[p].pc \notin {"done", "failed"}
    /\ Cardinality({ q \in Calls : procs[q].pc = "failed" }) < MaxStoreFailures
    /\ Goto(p, "failed", 1, << >>)
    /\ visitsDone' = visitsDone + 1
    /\ UNCHANGED << db, recentInteractions, retrained >>
    /\ ConcFrame

NextConc ==
    \/ \E p \in Calls : RecordStep(p)
    \/ \E p \in Calls : KeywordRead(p)
    \/ \E p \in Calls : KeywordWriteStep(p)
    \/ \E p \in Calls : CategoryRead(p)
    \/ \E p \in Calls : CategoryWriteStep(p)
    \/ \E p \in Calls : PatternStep(p)
    \/ \E p \in Calls : TraitRead(p)
    \/ \E p \in Calls : TraitWriteStep(p)
    \/ \E p \in Calls : PreferenceRead(p)
    \/ \E p \in Calls : PreferenceWriteStep(p)
    \/ \E p \in Calls : RetrainStep(p)
    \/ \E p \in Calls : StoreFailure(p)

SpecConc == InitConc /\ [][NextConc]_vars

(* what claims compare of the store: the interests, content preferences and
   personality traits without their keys and timestamps *)
ProfileView(d) ==
    [interests |-> { << i, d.interests[i].topic, d.interests[i].strength >> :
                        i \in 1..Len(d.interests) },
     preferences |-> { << i, d.preferences[i].category, d.preferences[i].preference,
                          d.preferences[i].weight, d.preferences[i].confidence >> :
                        i \in 1..Len(d.preferences) },
     traits |-> { << i, d.personalityTraits[i].trait, d.personalityTraits[i].score,
                     d.personalityTraits[i].confidence >> :
                        i \in 1..Len(d.personalityTraits) }]

(* the store after the calls in flight are applied one after the other in
   the order given *)
RECURSIVE ApplyInOrder(_, _, _)
ApplyInOrder(d, order, n) ==
    IF n > Len(order) THEN d
    ELSE ApplyInOrder(updateFromPageVisit(d, procs[order[n]].v, now), order, n + 1)

CallOrders == { o \in [Calls -> Calls] : \A a, b \in Calls : o[a] = o[b] => a = b }


----------------------------------------------------------------------------
(* faulty variant: the metrics of a user who jumps between pages *)
getRecentBehaviorMetrics_Jumpy ==
    [averageTimeSpent |-> 180, engagementLevel |-> 6000, pageJumpRate |-> 9000,
     interactionFrequency |-> 5000]

(* RealTimeAnalyzer.getRecentBehaviorMetrics *)
getRecentBehaviorMetrics ==
    [averageTimeSpent |-> 180, engagementLevel |-> 6000, pageJumpRate |-> 4000,
     interactionFrequency |-> 5000]

(* RealTimeAnalyzer.inferUserMood: the label and confidence it chooses *)
MoodOf(recentBehavior, timeOfDay, dayOfWeek) ==
    IF recentBehavior.averageTimeSpent > 300 /\ recentBehavior.engagementLevel > 7000
    THEN [mood |-> "focused", confidence |-> 8000]
    ELSE IF recentBehavior.pageJumpRate > 8000
    THEN [mood |-> "restless", confidence |-> 7000]
    ELSE IF timeOfDay >= 9 /\ timeOfDay <= 17 /\ dayOfWeek >= 1 /\ dayOfWeek <= 5
    THEN [mood |-> "productive", confidence |-> 6000]
    ELSE IF timeOfDay >= 18 /\ timeOfDay <= 22
    THEN [mood |-> "relaxed", confidence |-> 6000]
    ELSE [mood |-> "neutral", confidence |-> 5000]

MoodSample(t) ==
    LET m == MoodOf(getRecentBehaviorMetrics, getHours(t), getDay(t))
    IN  [timestamp |-> t, mood |-> m.mood, confidence |-> m.confidence,
         factors |-> getRecentBehaviorMetrics]

(* faulty variant: the history keeps the first 50 samples instead of the last 50 *)
MoodHistoryPush_KeepOldest(history, sample) ==
    IF Len(history) + 1 > 50 THEN SubSeq(Append(history, sample), 1, 50)
    ELSE Append(history, sample)

(* RealTimeAnalyzer.inferUserMood: push and slice(-50) *)
MoodHistoryPush(history, sample) ==
    IF Len(history) + 1 > 50
    THEN SubSeq(Append(history, sample), Len(history) + 1 - 50 + 1, Len(history) + 1)
    ELSE Append(history, sample)

(* one call of RealTimeAnalyzer.inferUserMood; it has no await inside *)
InferUserMoodUpTo(maxCalls) ==
    /\ Len(moodCalls) < maxCalls
    /\ userMoodHistory' = MoodHistoryPush(userMoodHistory, MoodSample(now))
    /\ moodCalls' = Append(moodCalls, MoodSample(now))
    /\ lastMood' = [mood |-> MoodSample(now).mood,
                    confidence |-> MoodSample(now).confidence]
    /\ UNCHANGED << sessionInteractions, personalMood, now >>
    /\ UNCHANGED engineVars
    /\ UNCHANGED seqVars
    /\ UNCHANGED scen
    /\ UNCHANGED concVars
    /\ UNCHANGED sysVars

InferUserMood == InferUserMoodUpTo(MaxMoodCalls)

MoodTick == TickUpTo(MaxMoodClock)

InitMood ==
    /\ EngineIdle(0)
    /\ now = 0
    /\ SeqIdle /\ ScenIdle /\ ProcsIdle /\ MoodIdle /\ SysIdle

NextMood == InferUserMood \/ MoodTick

SpecMood == InitMood /\ [][NextMood]_vars

----------------------------------------------------------------------------
(* ContextualAI: the interaction window and the mood inferred from it.
   Date.now() is in milliseconds, one clock tick is eight hours. *)

MsOf(t) == t * 28800000

(* ContextualAI.calculateAverageTimeBetweenInteractions, as the fraction
   << total, count >> *)
RECURSIVE SumGaps(_, _)
SumGaps(interactions, i) ==
    IF i > Len(interactions) THEN 0
    ELSE (interactions[i].timestamp - interactions[i - 1].timestamp)
         + SumGaps(interactions, i + 1)

calculateAverageTimeBetweenInteractions(interactions) ==
    IF Len(interactions) < 2 THEN << 0, 1 >>
    ELSE << SumGaps(interactions, 2), Len(interactions) - 1 >>

CountType(interactions, type) ==
    Cardinality({ i \in 1..Len(interactions) : interactions[i].type = type })

(* ContextualAI.inferMoodFromInteractions: the value of personal.mood after
   the call *)
inferMoodFromInteractions(interactions, mood) ==
    LET recent == SliceLast(interactions, 20)
        avg == calculateAverageTimeBetweenInteractions(recent)
        clickFrequency == CountType(recent, "click")
        scrollFrequency == CountType(recent, "scroll")
    IN  IF Len(recent) < 5 THEN mood
        ELSE IF avg[1] < 2000 * avg[2] /\ clickFrequency > 10 THEN "impatient"
        ELSE IF avg[1] > 5000 * avg[2] /\ scrollFrequency > clickFrequency
             THEN "focused"
        ELSE IF scrollFrequency > clickFrequency * 2 THEN "exploring"
        ELSE "neutral"

(* ContextualAI.handleUserInteraction *)
HandleUserInteraction(type) ==
    /\ Len(sessionInteractions) < MaxEvents
    /\ sessionInteractions' =
          SliceLast(Append(sessionInteractions,
                           [type |-> type, timestamp |-> MsOf(now)]), 100)
    /\ personalMood' = inferMoodFromInteractions(sessionInteractions', personalMood)
    /\ UNCHANGED << userMoodHistory, moodCalls, lastMood, now >>
    /\ UNCHANGED engineVars
    /\ UNCHANGED seqVars
    /\ UNCHANGED scen
    /\ UNCHANGED concVars
    /\ UNCHANGED sysVars

UserInteraction == \E type \in {"click", "scroll"} : HandleUserInteraction(type)

InferUserMoodFew == InferUserMoodUpTo(MaxFewCalls)

TelemetryTick == TickUpTo(MaxMoodClock)

NextTelemetry == UserInteraction \/ InferUserMoodFew \/ TelemetryTick

SpecTelemetry == InitMood /\ [][NextTelemetry]_vars


----------------------------------------------------------------------------
(* SpecProfile: persistence of the user profile *)

(* PersonalizationEngine.getUserProfile *)
getUserProfile(d, profile) ==
    LET found == FirstByUserId(d.userProfiles, profile.id)
    IN  IF found # << >> THEN JSONparse(found[1].data) ELSE profile

(* PersonalizationEngine.saveUserProfile: the object it serialises *)
ProfileData(profile, t) == [profile EXCEPT !.lastUpdated = t]

(* PersonalizationEngine.saveUserProfile: userProfiles.put of an object that
   carries no primary key, which inserts a new record *)
saveUserProfile(tbl, profile, t) ==
    TableAdd(tbl, [id |-> 0, userId |-> profile.id,
                   data |-> JSONstringify(ProfileData(profile, t)),
                   lastUpdated |-> t])

ProfileFrame ==
    /\ UNCHANGED << recentInteractions, retrained, now >>
    /\ UNCHANGED seqVars
    /\ UNCHANGED scen
    /\ UNCHANGED concVars
    /\ UNCHANGED moodVars
    /\ UNCHANGED sysVars

(* the five-minute timer of startContinuousLearning, or shutdown *)
SaveUserProfile ==
    /\ Len(db.userProfiles) < MaxSaves
    /\ db' = [db EXCEPT !.userProfiles = saveUserProfile(@, userProfile, now)]
    /\ UNCHANGED << userProfile, loadedProfile >>
    /\ ProfileFrame

(* ipc personalization:getUserProfile, NexusBrowser.loadUserProfile *)
GetUserProfile ==
    /\ loadedProfile.calls < MaxSaves
    /\ loadedProfile' = [value |-> getUserProfile(db, userProfile),
                         saves |-> Len(db.userProfiles),
                         calls |-> loadedProfile.calls + 1]
    /\ UNCHANGED << db, userProfile >>
    /\ ProfileFrame

(* PersonalizationEngine.loadUserProfile: { ...this.userProfile, ...profile } *)
LoadUserProfile ==
    /\ userProfile' = getUserProfile(db, userProfile)
    /\ UNCHANGED << db, loadedProfile >>
    /\ ProfileFrame

ProfileTick == TickUpTo(MaxProfileClock)

InitProfile ==
    /\ EngineIdle(0)
    /\ now = 0
    /\ SeqIdle /\ ScenIdle /\ ProcsIdle /\ MoodIdle /\ SysIdle

NextProfile == SaveUserProfile \/ GetUserProfile \/ LoadUserProfile \/ ProfileTick

SpecProfile == InitProfile /\ [][NextProfile]_vars

----------------------------------------------------------------------------
(* SpecShutdown: shutdown() of the PersonalizationEngine and of the
   RealTimeAnalyzer, with one updateFromPageVisit call in flight and the
   setInterval timers that initialize() registered.  No handle of a timer is
   kept and no clearInterval is called, so a callback can run at any time. *)

(* PersonalizationEngine.detectPatternChanges: the weight of every category
   seen in the interactions, as pairs << type, weight >> *)
detectPatternChanges(interactions) ==
    LET categories == { interactions[i].data.category : i \in 1..Len(interactions) }
                      \ { "" }
        count(c) == Cardinality({ i \in 1..Len(interactions) :
                                    interactions[i].data.category = c })
    IN  { << c, (count(c) * One) \div Len(interactions) >> : c \in categories }

(* Map.set for every pattern *)
WeightsSet(weights, patterns) ==
    { w \in weights : \A q \in patterns : q[1] # w[1] } \cup patterns

(* PersonalizationEngine.analyzeRecentPatterns: adaptiveWeights after the call *)
analyzeRecentPatterns(weights, recent) ==
    LET recentInteractions20 == SliceLast(recent, 20)
    IN  IF Len(recentInteractions20) > 5
        THEN WeightsSet(weights, detectPatternChanges(recentInteractions20))
        ELSE weights

(* RealTimeAnalyzer.cleanupOldAnalyses: 24 hours are three clock ticks *)
cleanupOldAnalyses(activeAnalyses, t) ==
    { a \in activeAnalyses : ~(a.timestamp < t - 3) }

(* RealTimeAnalyzer.getCurrentMood *)
getCurrentMood(history) ==
    IF Len(history) > 0 THEN history[Len(history)].mood ELSE "neutral"

(* RealTimeAnalyzer.updateContextualFactors; systemLoad is Math.random() * 0.5
   and is left out of the record *)
updateContextualFactors(history, t) ==
    [timeOfDay |-> getHours(t), dayOfWeek |-> getDay(t),
     currentMood |-> getCurrentMood(history)]

ShutdownInput == MkVisit(<< "AI" >>, "technology", One, 0)

InitShutdown ==
    /\ EngineIdle(6)
    /\ db0 = db
    /\ sched = [running |-> 0, switches |-> 0]
    /\ procs = [p \in Calls |->
                  [v |-> [ShutdownInput EXCEPT !.pageData.url = UrlOf(p)],
                   pc |-> IF p = 1 THEN "record" ELSE "done",
                   i |-> 1, existing |-> << >>]]
    /\ now = 0
    /\ SeqIdle /\ ScenIdle /\ MoodIdle
    /\ engine = [shutdown |-> "idle", dbOpen |-> TRUE, adaptiveWeights |-> {},
                 pcAtSave |-> "none", pcAtClose |-> "none"]
    /\ analyzer = [isInitialized |-> TRUE, shutdown |-> FALSE,
                   activeAnalyses |-> { [url |-> UrlOf(1), timestamp |-> -4],
                                        [url |-> UrlOf(2), timestamp |-> 0] },
                   contextualFactors |-> NoFactors]
    /\ timers = [fires |-> [t \in TimerNames |-> 0], late |-> {}]
    /\ collector = NoCollector
    /\ nav = NoNav
    /\ personalized = NoContent
    /\ privacy = NoPrivacy
    /\ requests = NoRequests
    /\ tabManager = NoTabs

(* the call in flight takes its next step while the store is open *)
VisitStepOpen ==
    /\ engine.dbOpen
    /\ \/ RecordStep(1)
       \/ KeywordRead(1)
       \/ KeywordWriteStep(1)
       \/ CategoryRead(1)
       \/ CategoryWriteStep(1)
       \/ PatternStep(1)
       \/ TraitRead(1)
       \/ TraitWriteStep(1)
       \/ PreferenceRead(1)
       \/ PreferenceWriteStep(1)
       \/ RetrainStep(1)

(* the awaited store operation of the call in flight rejects because the
   store was closed: catch (error) { console.error(...) } *)
VisitStepClosed ==
    /\ ~engine.dbOpen
    /\ procs[1].pc \notin {"done", "failed"}
    /\ Goto(1, "failed", 1, << >>)
    /\ visitsDone' = visitsDone + 1
    /\ UNCHANGED << db, recentInteractions, retrained >>
    /\ ConcFrame

(* where the updateFromPageVisit call in flight stands; "none" without a call *)
VisitPc == IF 1 \in DOMAIN procs THEN procs[1].pc ELSE "none"

ShutdownFrame ==
    /\ UNCHANGED << recentInteractions, userProfile, loadedProfile, retrained, now,
                    scen, nav, personalized, collector,
                    privacy, requests, tabManager >>
    /\ UNCHANGED seqVars
    /\ UNCHANGED concVars
    /\ UNCHANGED moodVars

(* PersonalizationEngine.shutdown, up to the end of await saveUserProfile() *)
ShutdownSave ==
    /\ engine.shutdown = "idle"
    /\ db' = [db EXCEPT !.userProfiles = saveUserProfile(@, userProfile, now)]
    /\ engine' = [engine EXCEPT !.shutdown = "saved", !.pcAtSave = VisitPc]
    /\ UNCHANGED << analyzer, timers >>
    /\ ShutdownFrame

(* PersonalizationEngine.shutdown, the rest: dispose the models, db.close() *)
ShutdownClose ==
    /\ engine.shutdown = "saved"
    /\ engine' = [engine EXCEPT !.shutdown = "closed", !.dbOpen = FALSE,
                                !.pcAtClose = VisitPc]
    /\ UNCHANGED << db, analyzer, timers >>
    /\ ShutdownFrame

(* RealTimeAnalyzer.shutdown: disposes the models *)
AnalyzerShutdown ==
    /\ ~analyzer.shutdown
    /\ analyzer' = [analyzer EXCEPT !.shutdown = TRUE]
    /\ UNCHANGED << db, engine, timers >>
    /\ ShutdownFrame

(* a timer callback runs: the count of its runs, and whether the run came
   after the shutdown of its owner had completed *)
TimerRun(name, ownerDown) ==
    /\ timers.fires[name] < MaxTimerFires
    /\ timers' = [fires |-> [timers.fires EXCEPT ![name] = @ + 1],
                  late |-> IF ownerDown THEN timers.late \cup {name}
                           ELSE timers.late]

(* setInterval(async () => { await this.saveUserProfile(); }, 300000); the
   put rejects when the store is closed *)
SaveTimer ==
    /\ TimerRun("saveUserProfile", engine.shutdown = "closed")
    /\ db' = IF engine.dbOpen
             THEN [db EXCEPT !.userProfiles = saveUserProfile(@, userProfile, now)]
             ELSE db
    /\ UNCHANGED << engine, analyzer >>
    /\ ShutdownFrame

(* setInterval(async () => { await this.analyzeRecentPatterns();
   await this.updateAdaptiveWeights(); }, 60000) *)
PatternsTimer ==
    /\ TimerRun("analyzeRecentPatterns", engine.shutdown = "closed")
    /\ engine' = [engine EXCEPT !.adaptiveWeights =
                     analyzeRecentPatterns(@, recentInteractions)]
    /\ UNCHANGED << db, analyzer >>
    /\ ShutdownFrame

(* setInterval(() => { this.cleanupOldAnalyses(); }, 300000) *)
CleanupTimer ==
    /\ TimerRun("cleanupOldAnalyses", analyzer.shutdown)
    /\ analyzer' = [analyzer EXCEPT !.activeAnalyses = cleanupOldAnalyses(@, now)]
    /\ UNCHANGED << db, engine >>
    /\ ShutdownFrame

(* setInterval(() => { this.updateContextualFactors(); }, 60000) *)
ContextTimer ==
    /\ TimerRun("updateContextualFactors", analyzer.shutdown)
    /\ analyzer' = [analyzer EXCEPT !.contextualFactors =
                       updateContextualFactors(userMoodHistory, now)]
    /\ UNCHANGED << db, engine >>
    /\ ShutdownFrame

NextShutdown ==
    \/ VisitStepOpen
    \/ VisitStepClosed
    \/ ShutdownSave
    \/ ShutdownClose
    \/ AnalyzerShutdown
    \/ SaveTimer
    \/ PatternsTimer
    \/ CleanupTimer
    \/ ContextTimer

SpecShutdown == InitShutdown /\ [][NextShutdown]_vars

----------------------------------------------------------------------------
(* SpecNav: RealTimeAnalyzer.analyzePage and NexusBrowser.handlePageNavigation *)

(* the methods class RealTimeAnalyzer defines; a call of this.m(...) for any
   other m is a TypeError *)
RealTimeAnalyzerMethods ==
    { "constructor", "initialize", "initializeModels",
      "createContentClassificationModel", "createEngagementPredictionModel",
      "createReadabilityModel", "createEmotionDetectionModel", "analyzePage",
      "analyzeContent", "analyzeText", "classifyContent", "detectLanguage",
      "analyzeReadability", "extractTopics", "extractKeywords", "analyzeStructure",
      "analyzeHeadings", "analyzeMedia", "analyzeSemantics", "extractNamedEntities",
      "analyzeTemporalReferences", "predictEngagement", "analyzeEmotions",
      "analyzeContext", "analyzePerformance", "calculateOverallScores",
      "inferUserMood", "calculateReadingTime", "countSyllables",
      "calculateAverageWordsPerSentence", "calculateComplexityScore",
      "getRecentBehaviorMetrics", "startBackgroundProcesses", "cleanupOldAnalyses",
      "updateContextualFactors", "getCurrentMood", "getSystemLoad",
      "updateAnalysisMetrics", "createFallbackAnalysis", "shutdown" }

(* the methods class AIEngine defines *)
AIEngineMethods ==
    { "constructor", "initialize", "initializeModels",
      "createTextClassificationModel", "createUserBehaviorModel",
      "createContentRecommendationModel", "createIntentPredictionModel",
      "processQuery", "analyzeIntent", "extractEntities", "analyzeContext",
      "generateIntelligentResponse", "buildSystemPrompt", "buildUserPrompt",
      "generateFallbackResponse", "generateSuggestions", "getTimeContext",
      "updateConversationContext", "learnFromInteraction", "updateKnowledgeGraph",
      "extractConcepts", "loadKnowledgeGraph", "saveKnowledgeGraph",
      "loadUserMemory", "saveUserMemory", "shutdown" }

(* the outcome of a call: it returned value, or it threw (rejected with) value *)
Return(value) == [threw |-> FALSE, value |-> value]

Throw(value) == [threw |-> TRUE, value |-> value]

(* classifyContent: the keyword table, in the insertion order of the literal *)
ContentCategories ==
    << [category |-> "news",
        keywords |-> {"news", "article", "breaking", "report", "journalist"}],
       [category |-> "education",
        keywords |-> {"learn", "tutorial", "course", "study", "education", "academic"}],
       [category |-> "entertainment",
        keywords |-> {"movie", "music", "game", "fun", "entertainment", "celebrity"}],
       [category |-> "technology",
        keywords |-> {"tech", "software", "computer", "AI", "programming", "developer"}],
       [category |-> "business",
        keywords |-> {"business", "finance", "market", "economy", "investment", "startup"}],
       [category |-> "health",
        keywords |-> {"health", "medical", "doctor", "fitness", "wellness", "nutrition"}],
       [category |-> "sports",
        keywords |-> {"sport", "game", "team", "player", "championship", "athletic"}],
       [category |-> "travel",
        keywords |-> {"travel", "trip", "vacation", "destination", "hotel", "flight"}],
       [category |-> "food",
        keywords |-> {"food", "recipe", "cooking", "restaurant", "chef", "cuisine"}],
       [category |-> "fashion",
        keywords |-> {"fashion", "style", "clothing", "designer", "trend", "beauty"}],
       [category |-> "science",
        keywords |-> {"science", "research", "study", "experiment", "discovery", "theory"}],
       [category |-> "politics",
        keywords |-> {"politics", "government", "election", "policy", "politician", "vote"}] >>

(* text.includes(keyword) on the lower-cased nouns and verbs of the texts the
   model uses: the keywords of the table that occur in the text *)
KeywordsIn(text) ==
    CASE text = "software for a computer" -> {"software", "computer"}
      [] text = "news about a game" -> {"news", "game"}
      [] text = "study" -> {"study"}
      [] text = "tech software computer programming" ->
            {"tech", "software", "computer", "programming"}
      [] text = "sports team game" -> {"sport", "team", "game"}
      [] text = "ai research" -> {"research"}
      [] text = "technology news report" -> {"tech", "news", "report"}
      [] text = "game player study" -> {"game", "player", "study"}
      [] text = "travel food" -> {"travel", "food"}
      [] text = "market economy finance" -> {"market", "economy", "finance"}
      [] OTHER -> {}

RECURSIVE BestCategory(_, _, _, _)
BestCategory(text, i, bestCategory, bestScore) ==
    IF i > Len(ContentCategories)
    THEN [primary |-> bestCategory, score |-> bestScore]
    ELSE LET score == Cardinality(ContentCategories[i].keywords \cap KeywordsIn(text))
         IN  IF score > bestScore
             THEN BestCategory(text, i + 1, ContentCategories[i].category, score)
             ELSE BestCategory(text, i + 1, bestCategory, bestScore)

(* RealTimeAnalyzer.classifyContent; the object it returns is built with
   this.getAlternativeCategories(categories, text) *)
classifyContent(text) ==
    LET best == BestCategory(text, 1, "general", 0)
    IN  IF "getAlternativeCategories" \in RealTimeAnalyzerMethods
        THEN Return([primary |-> best.primary,
                     confidence |-> Min2(One, (best.score * One) \div 3)])
        ELSE Throw("TypeError")

(* RealTimeAnalyzer.detectLanguage on the texts the model uses *)
detectLanguage(text) == [primary |-> "english", confidence |-> 5000]

(* RealTimeAnalyzer.analyzeContent: category and language of the result *)
analyzeContent(pageData) ==
    LET category == classifyContent(pageData.content)
    IN  IF category.threw THEN category
        ELSE Return([category |-> category.value,
                     language |-> detectLanguage(pageData.content)])

(* RealTimeAnalyzer.analyzeStructure: it calls this.analyzeNavigation($) *)
analyzeStructure(pageData) ==
    IF "analyzeNavigation" \in RealTimeAnalyzerMethods
    THEN Return([hasStructure |-> TRUE]) ELSE Throw("TypeError")

(* faulty variant: the fallback claims a confident classification and a high
   engagement *)
createFallbackAnalysis_Confident(pageData, t) ==
    [url |-> pageData.url, timestamp |-> t,
     content |-> [category |-> [primary |-> "general", confidence |-> 5000],
                  language |-> [primary |-> "english", confidence |-> 5000],
                  readability |-> [difficulty |-> "medium", fleschScore |-> 50],
                  topics |-> << >>, keywords |-> << >>],
     engagement |-> [score |-> 8000, prediction |-> "medium"],
     emotions |-> [sentiment |-> [polarity |-> "neutral", intensity |-> 0]],
     overall |-> [overallScore |-> 5000],
     error |-> TRUE]

(* RealTimeAnalyzer.createFallbackAnalysis *)
createFallbackAnalysis(pageData, t) ==
    [url |-> pageData.url, timestamp |-> t,
     content |-> [category |-> [primary |-> "general", confidence |-> 3000],
                  language |-> [primary |-> "english", confidence |-> 5000],
                  readability |-> [difficulty |-> "medium", fleschScore |-> 50],
                  topics |-> << >>, keywords |-> << >>],
     engagement |-> [score |-> 5000, prediction |-> "medium"],
     emotions |-> [sentiment |-> [polarity |-> "neutral", intensity |-> 0]],
     overall |-> [overallScore |-> 5000],
     error |-> TRUE]

(* RealTimeAnalyzer.analyzePage.  A null pageData throws at pageData.url inside
   the try block and again in createFallbackAnalysis, outside of it.  The first
   sub-analysis that throws sends the call to the catch block; the
   sub-analyses after analyzeStructure are not reached. *)
analyzePage(isInitialized, pageData, t) ==
    IF ~isInitialized THEN Throw("RealTimeAnalyzer not initialized")
    ELSE IF pageData.isNull THEN Throw("TypeError")
    ELSE LET content == analyzeContent(pageData)
             structure == analyzeStructure(pageData)
         IN  IF content.threw \/ structure.threw
             THEN Return(createFallbackAnalysis(pageData, t))
             ELSE Return([url |-> pageData.url, timestamp |-> t,
                          content |-> content.value, structure |-> structure.value,
                          error |-> FALSE])

(* AIEngine.generateSuggestions for a profile whose interests array exists:
   it calls this.getPersonalizedContent and this.getTimeBasedSuggestions *)
generateSuggestions(pageAnalysis) ==
    IF {"getPersonalizedContent", "getTimeBasedSuggestions"} \subseteq AIEngineMethods
    THEN Return(<< >>) ELSE Throw("TypeError")

(* DataCollector.calculateTimeSpent *)
RECURSIVE calculateTimeSpent(_, _, _)
calculateTimeSpent(pageViews, url, i) ==
    IF i > Len(pageViews) THEN 0
    ELSE (IF pageViews[i].url = url THEN pageViews[i].duration ELSE 0)
         + calculateTimeSpent(pageViews, url, i + 1)

(* DataCollector.getPageInteractions: totalInteractions, the interactions with
   the page during the last hour *)
totalInteractions(interactions, url, t) ==
    Cardinality({ i \in 1..Len(interactions) :
                    interactions[i].pageUrl = url /\ interactions[i].timestamp >= t })

(* DataCollector.collectPageData: what it returns; the page content is the
   object of extractPageContent *)
collectPageData(c, url, t) ==
    IF ~c.isInitialized THEN NullPage
    ELSE [isNull |-> FALSE, url |-> url, title |-> "site.example/",
          content |-> "[object Object]",
          timeSpent |-> IF c.dbOpen THEN calculateTimeSpent(c.pageViews, url, 1)
                        ELSE 0]

(* DataCollector.collectPageData: the store after collectPerformanceMetrics
   and storePageView (both swallow the error of a closed store); the keys are
   auto-incremented and never reused; no scroll interaction is recorded in the
   model *)
CollectorAfterPage(c, url, t) ==
    IF ~c.isInitialized \/ ~c.dbOpen THEN c
    ELSE [c EXCEPT
            !.performanceMetrics =
                Append(@, [id |-> c.lastKey.performanceMetrics + 1, url |-> url,
                           timestamp |-> t]),
            !.pageViews =
                Append(@, [id |-> c.lastKey.pageViews + 1, url |-> url,
                           title |-> "site.example/", timestamp |-> t,
                           duration |-> calculateTimeSpent(c.pageViews, url, 1),
                           scrollDepth |-> 0,
                           interactionCount |->
                               totalInteractions(c.interactions, url, t)]),
            !.lastKey.performanceMetrics = @ + 1,
            !.lastKey.pageViews = @ + 1]

(* the arguments handlePageNavigation hands to updateFromPageVisit: the
   analysis of analyzePage has no top-level category, keywords or sentiment,
   and its engagement is an object *)
NavVisit(pageData, analysis) ==
    [pageData |-> [url |-> pageData.url, title |-> pageData.title,
                   timeSpent |-> pageData.timeSpent],
     analysis |-> [BaseAnalysis EXCEPT !.engagement = analysis.engagement]]

AnalyzeInputs ==
    { NullPage,
      [isNull |-> FALSE, url |-> "https://site.example/", title |-> "",
       content |-> "", timeSpent |-> 0],
      [isNull |-> FALSE, url |-> "", title |-> "", content |-> "", timeSpent |-> 0],
      [isNull |-> FALSE, url |-> "https://site.example/1", title |-> "page",
       content |-> "software for a computer", timeSpent |-> 0],
      [isNull |-> FALSE, url |-> "https://site.example/2", title |-> "page",
       content |-> "news about a game", timeSpent |-> 400] }

InitNav ==
    /\ EngineIdle(0)
    /\ now = 0
    /\ SeqIdle /\ ScenIdle /\ ProcsIdle /\ MoodIdle
    /\ engine = [shutdown |-> "idle", dbOpen |-> TRUE, adaptiveWeights |-> {},
                 pcAtSave |-> "none", pcAtClose |-> "none"]
    /\ analyzer = [isInitialized |-> FALSE, shutdown |-> FALSE,
                   activeAnalyses |-> {}, contextualFactors |-> NoFactors]
    /\ timers = [fires |-> [t \in TimerNames |-> 0], late |-> {}]
    /\ collector = NoCollector
    /\ nav = NoNav
    /\ personalized = NoContent
    /\ privacy = NoPrivacy
    /\ requests = NoRequests
    /\ tabManager = NoTabs

NavFrame ==
    /\ UNCHANGED << userProfile, loadedProfile, now, scen, engine, timers, personalized,
                    privacy, requests, tabManager >>
    /\ UNCHANGED seqVars
    /\ UNCHANGED concVars

(* RealTimeAnalyzer.initialize *)
AnalyzerInitialize ==
    /\ ~analyzer.isInitialized
    /\ analyzer' = [analyzer EXCEPT !.isInitialized = TRUE]
    /\ UNCHANGED << db, recentInteractions, retrained, collector, nav >>
    /\ UNCHANGED moodVars
    /\ NavFrame

(* DataCollector.initialize *)
CollectorInitialize ==
    /\ ~collector.isInitialized
    /\ collector' = [collector EXCEPT !.isInitialized = TRUE, !.dbOpen = TRUE]
    /\ UNCHANGED << db, recentInteractions, retrained, analyzer, nav >>
    /\ UNCHANGED moodVars
    /\ NavFrame

(* the analyzePage call before the current one: its argument and outcome *)
PrevCall == [threw |-> nav.threw, pageData |-> nav.pageData, analysis |-> nav.analysis]

(* a call of analyzePage(pageData) *)
AnalyzePage(pageData) ==
    LET a == analyzePage(analyzer.isInitialized, pageData, now)
    IN  /\ nav.count < MaxNavs
        /\ nav' = [count |-> nav.count + 1, kind |-> "analyzePage",
                   threw |-> a.threw, pageData |-> pageData,
                   analysis |-> IF a.threw THEN NoAnalysis ELSE a.value,
                   storeFailed |-> FALSE, sent |-> FALSE,
                   prev |-> PrevCall]
        /\ UNCHANGED << db, recentInteractions, retrained, analyzer, collector >>
        /\ UNCHANGED moodVars
        /\ NavFrame

(* NexusBrowser.handlePageNavigation for a main-frame request, with the main
   window open.  writeFails: the first store write of updateFromPageVisit
   rejects.  generateSmartSuggestions runs getContextualData (getRecentActivity,
   inferUserMood, getActiveProjects, which reads the profile store) and then
   generateSuggestions; 'page-analysis' is sent when it returns. *)
HandlePageNavigation(url, writeFails) ==
    LET pageData == collectPageData(collector, url, now)
        a == analyzePage(analyzer.isInitialized, pageData, now)
        storeUp == engine.dbOpen /\ ~writeFails
        v == NavVisit(pageData, a.value)
        suggestions == IF engine.dbOpen THEN generateSuggestions(a.value)
                       ELSE Throw("DatabaseClosedError")
    IN  /\ nav.count < MaxNavs
        /\ collector' = CollectorAfterPage(collector, url, now)
        /\ nav' = [count |-> nav.count + 1, kind |-> "navigation",
                   threw |-> a.threw, pageData |-> pageData,
                   analysis |-> IF a.threw THEN NoAnalysis ELSE a.value,
                   storeFailed |-> ~a.threw /\ ~storeUp,
                   sent |-> ~a.threw /\ ~suggestions.threw,
                   prev |-> PrevCall]
        /\ IF ~a.threw /\ storeUp
           THEN /\ db' = updateFromPageVisit(db, v, now)
                /\ recentInteractions' =
                      RecentPush(recentInteractions, "page_visit",
                                 VisitInteractionData(v.pageData, v.analysis), now)
                /\ retrained' = retrained + checkAndRetrain(db'.interactions)
           ELSE UNCHANGED << db, recentInteractions, retrained >>
        /\ IF ~a.threw
           THEN /\ userMoodHistory' = MoodHistoryPush(userMoodHistory, MoodSample(now))
                /\ moodCalls' = Append(moodCalls, MoodSample(now))
                /\ lastMood' = [mood |-> MoodSample(now).mood,
                                confidence |-> MoodSample(now).confidence]
           ELSE UNCHANGED << userMoodHistory, moodCalls, lastMood >>
        /\ UNCHANGED << sessionInteractions, personalMood, analyzer >>
        /\ NavFrame

AnalyzePageAny == \E pageData \in AnalyzeInputs : AnalyzePage(pageData)

HandlePageNavigationAny ==
    \E url \in { UrlOf(1), UrlOf(2) }, writeFails \in BOOLEAN :
        HandlePageNavigation(url, writeFails)

NavTick ==
    /\ nav.count < MaxNavs
    /\ TickUpTo(MaxNavClock)

NextNav ==
    \/ NavTick
    \/ AnalyzerInitialize
    \/ CollectorInitialize
    \/ AnalyzePageAny
    \/ HandlePageNavigationAny
    \/ ShutdownSave
    \/ ShutdownClose

SpecNav == InitNav /\ [][NextNav]_vars

----------------------------------------------------------------------------
(* SpecRetrain: the callers of PersonalizationEngine.recordInteraction, started
   after 98 or 99 settings updates *)

RetrainFrame ==
    /\ UNCHANGED << userProfile, loadedProfile, now, scen >>
    /\ UNCHANGED seqVars
    /\ UNCHANGED concVars
    /\ UNCHANGED moodVars
    /\ UNCHANGED sysVars

(* PersonalizationEngine.recordInteraction called by an ipc handler; the
   handler does not call checkAndRetrain *)
RecordInteraction(type, data) ==
    /\ Len(db.interactions) < MaxInteractions
    /\ db' = [db EXCEPT !.interactions = InteractionAdd(@, type, data, now)]
    /\ recentInteractions' = RecentPush(recentInteractions, type, data, now)
    /\ UNCHANGED retrained
    /\ RetrainFrame

(* ipc personalization:updatePreference *)
UpdatePreference ==
    \E value \in {"article", "video"} :
        RecordInteraction("preference_update",
            [category |-> "format", preference |-> "preferred", value |-> value,
             timestamp |-> now])

(* ipc settings:update *)
UpdateSettings == RecordInteraction("settings_update", [theme |-> "dark"])

(* a page visit, from entry to return *)
RetrainVisit ==
    /\ Len(db.interactions) < MaxInteractions
    /\ ApplyVisit(PriorVisit)
    /\ UNCHANGED scen
    /\ UNCHANGED sysVars

(* the interactions table and the in-memory list after n settings updates
   recorded at time 0: n times InteractionAdd, n times RecentPush *)
SettingsHistory(n) ==
    [i \in 1..n |->
        [id |-> i, timestamp |-> 0, type |-> "settings_update",
         data |-> JSONstringify([theme |-> "dark"]),
         context |-> JSONstringify([timeOfDay |-> getHours(0),
                                    dayOfWeek |-> getDay(0)])]]

SettingsRecent(n) ==
    [i \in 1..n |-> [type |-> "settings_update", data |-> [theme |-> "dark"],
                     timestamp |-> 0]]

InitRetrain ==
    /\ \E k \in {98, 99} :
          /\ db = [EmptyDB EXCEPT !.interactions = SettingsHistory(k)]
          /\ recentInteractions = SettingsRecent(k)
    /\ retrained = 0
    /\ userProfile = DefaultProfile
    /\ loadedProfile = [value |-> DefaultProfile, saves |-> 0, calls |-> 0]
    /\ now = 0
    /\ SeqIdle /\ ScenIdle /\ ProcsIdle /\ MoodIdle /\ SysIdle

NextRetrain == UpdatePreference \/ UpdateSettings \/ RetrainVisit

SpecRetrain == InitRetrain /\ [][NextRetrain]_vars

----------------------------------------------------------------------------
(* SpecPrivacy: ipc privacy:clearData over the data-collection store and the
   personalization store.  The clock ticks are 8 hours, so a day is 3 ticks. *)

(* table.where('timestamp').below(cutoffTime).delete() *)
DeleteBelow(table, cutoffTime) ==
    SelectSeq(table, LAMBDA r : ~(r.timestamp < cutoffTime))

ClearOptions ==
    { [clearAll |-> TRUE, days |-> 0, pageViews |-> FALSE, interactions |-> FALSE] }
    \cup
    [ clearAll : {FALSE}, days : 0..1, pageViews : BOOLEAN, interactions : BOOLEAN ]

InitPrivacy ==
    /\ \E k \in 0..1 : EngineIdle(k)
    /\ now = 0
    /\ SeqIdle /\ ScenIdle /\ ProcsIdle /\ MoodIdle
    /\ SysIdle

PrivacyFrame ==
    /\ UNCHANGED << recentInteractions, retrained, userProfile, loadedProfile, now,
                    scen, analyzer, timers, nav, personalized, requests, tabManager >>
    /\ UNCHANGED seqVars
    /\ UNCHANGED concVars
    /\ UNCHANGED moodVars

(* DataCollector.recordInteraction through ipc data:recordInteraction: nothing
   before initialize(); the error of a closed store is swallowed *)
CollectorRecordInteraction(type, pageUrl) ==
    /\ collector.lastKey.interactions < MaxCollected
    /\ collector.isInitialized /\ collector.dbOpen
    /\ collector' =
          [collector EXCEPT
              !.interactions =
                  Append(@, [id |-> collector.lastKey.interactions + 1,
                             type |-> type, target |-> "body",
                             timestamp |-> now, pageUrl |-> pageUrl,
                             data |-> "{}"]),
              !.lastKey.interactions = @ + 1]
    /\ UNCHANGED << db, engine, privacy >>
    /\ PrivacyFrame

(* ipc privacy:clearData.  dataCollector.db is null until
   DataCollector.initialize() has run, so every access of it throws a TypeError
   that the handler catches; db.delete() removes the database and closes it;
   a query on a closed database rejects. *)
ClearData(options) ==
    LET cutoffTime == now - options.days * 3
        collectorDb == collector.isInitialized
    IN  /\ privacy.calls < MaxClears
        /\ privacy' = [calls |-> privacy.calls + 1, options |-> options]
        /\ IF options.clearAll
           THEN IF collectorDb
                THEN /\ collector' = [collector EXCEPT
                                        !.dbOpen = FALSE,
                                        !.pageViews = << >>,
                                        !.interactions = << >>,
                                        !.performanceMetrics = << >>,
                                        !.lastKey = NoCollector.lastKey]
                     /\ db' = EmptyDB
                     /\ engine' = [engine EXCEPT !.dbOpen = FALSE]
                ELSE UNCHANGED << collector, db, engine >>
           ELSE /\ collector' =
                      IF collectorDb /\ collector.dbOpen
                      THEN [collector EXCEPT
                              !.pageViews =
                                  IF options.pageViews
                                  THEN DeleteBelow(@, cutoffTime) ELSE @,
                              !.interactions =
                                  IF options.interactions
                                  THEN DeleteBelow(@, cutoffTime) ELSE @]
                      ELSE collector
                /\ UNCHANGED << db, engine >>
        /\ PrivacyFrame

CollectorRecordInteractionAny ==
    \E pageUrl \in { UrlOf(1), UrlOf(2) } : CollectorRecordInteraction("click", pageUrl)

ClearDataAny == \E options \in ClearOptions : ClearData(options)

PrivacyNavigation == HandlePageNavigation(UrlOf(1), FALSE)

PrivacyTick == TickUpTo(MaxPrivacyClock)

NextPrivacy ==
    \/ CollectorInitialize
    \/ CollectorRecordInteractionAny
    \/ PrivacyNavigation
    \/ PrivacyTick
    \/ ClearDataAny

SpecPrivacy == InitPrivacy /\ [][NextPrivacy]_vars

----------------------------------------------------------------------------
(* SpecContent: PersonalizationEngine.getPersonalizedContent, read by read,
   while a page-visit update is in flight *)

(* table.orderBy(index).reverse().toArray(): descending by the index, equal
   keys by descending primary key *)
RECURSIVE OrderByReverse(_, _)
OrderByReverse(tbl, index) ==
    IF tbl = << >> THEN << >>
    ELSE LET m == CHOOSE i \in 1..Len(tbl) :
                      \A j \in 1..Len(tbl) :
                          \/ tbl[i][index] > tbl[j][index]
                          \/ /\ tbl[i][index] = tbl[j][index]
                             /\ tbl[i].id >= tbl[j].id
             rest == [j \in 1..(Len(tbl) - 1) |-> IF j < m THEN tbl[j] ELSE tbl[j + 1]]
         IN  << tbl[m] >> \o OrderByReverse(rest, index)

(* collection.limit(n) *)
Limit(rows, n) == SubSeq(rows, 1, Min2(n, Len(rows)))

(* preferences.reduce((acc, p) => { acc[p.category] = p.preference; ... }, {}) *)
contentPreferences(preferences) ==
    [c \in { preferences[i].category : i \in 1..Len(preferences) } |->
        LET last == CHOOSE i \in 1..Len(preferences) :
                        /\ preferences[i].category = c
                        /\ \A j \in 1..Len(preferences) :
                               preferences[j].category = c => j <= i
        IN  preferences[last].preference]

(* faulty variant: the interest-based suggestions are built from all the
   interests handed in *)
generatePersonalizedSuggestions_All(interests, t) ==
    LET timeOfDay == getHours(t)
        interestBased ==
            [i \in 1..Len(interests) |->
                [type |-> "interest_based", topic |-> interests[i].topic,
                 strength |-> interests[i].strength, category |-> "exploration"]]
    IN  interestBased \o
        (IF timeOfDay >= 9 /\ timeOfDay <= 17
         THEN << [type |-> "contextual", category |-> "productivity",
                  relevance |-> 8000] >>
         ELSE IF timeOfDay >= 18 /\ timeOfDay <= 22
         THEN << [type |-> "contextual", category |-> "entertainment",
                  relevance |-> 7000] >>
         ELSE << >>)

generatePersonalizedSuggestions(interests, t) ==
    LET timeOfDay == getHours(t)
        top == Limit(interests, 5)
        interestBased ==
            [i \in 1..Len(top) |->
                [type |-> "interest_based", topic |-> top[i].topic,
                 strength |-> top[i].strength, category |-> "exploration"]]
    IN  interestBased \o
        (IF timeOfDay >= 9 /\ timeOfDay <= 17
         THEN << [type |-> "contextual", category |-> "productivity",
                  relevance |-> 8000] >>
         ELSE IF timeOfDay >= 18 /\ timeOfDay <= 22
         THEN << [type |-> "contextual", category |-> "entertainment",
                  relevance |-> 7000] >>
         ELSE << >>)

(* faulty variant: the openness branch runs last, so 'dense' overrides 'sparse' *)
getAdaptiveInterfaceSettings_OpennessLast(personalityTraits) ==
    LET openness == FirstByTrait(personalityTraits, "openness")
        conscientiousness == FirstByTrait(personalityTraits, "conscientiousness")
        neuroticism == FirstByTrait(personalityTraits, "neuroticism")
        open == openness # << >> /\ openness[1].score > 7000
        neur == neuroticism # << >> /\ neuroticism[1].score > 6000
    IN  [complexity |-> IF open THEN "high" ELSE "medium",
         colorScheme |-> IF neur THEN "calming" ELSE "balanced",
         informationDensity |-> IF open THEN "dense"
                                ELSE IF neur THEN "sparse" ELSE "medium",
         interactionStyle |->
             IF conscientiousness # << >> /\ conscientiousness[1].score > 7000
             THEN "organized" ELSE "standard"]

(* PersonalizationEngine.getAdaptiveInterfaceSettings; find() returns the first
   element of the array with the trait *)
getAdaptiveInterfaceSettings(personalityTraits) ==
    LET settings == [complexity |-> "medium", colorScheme |-> "balanced",
                     informationDensity |-> "medium", interactionStyle |-> "standard"]
        openness == FirstByTrait(personalityTraits, "openness")
        s1 == IF openness # << >> /\ openness[1].score > 7000
              THEN [settings EXCEPT !.complexity = "high",
                                    !.informationDensity = "dense"]
              ELSE settings
        conscientiousness == FirstByTrait(personalityTraits, "conscientiousness")
        s2 == IF conscientiousness # << >> /\ conscientiousness[1].score > 7000
              THEN [s1 EXCEPT !.interactionStyle = "organized"]
              ELSE s1
        neuroticism == FirstByTrait(personalityTraits, "neuroticism")
        s3 == IF neuroticism # << >> /\ neuroticism[1].score > 6000
              THEN [s2 EXCEPT !.colorScheme = "calming",
                              !.informationDensity = "sparse"]
              ELSE s2
    IN  s3

(* the object getPersonalizedContent returns; trending[i] is the outcome of
   Math.random() > 0.7 for the i-th topic *)
PersonalizedContent(interests, preferences, personalityTraits, trending, t) ==
    [recommendedTopics |->
        [i \in 1..Len(interests) |->
            [topic |-> interests[i].topic, strength |-> interests[i].strength,
             trending |-> trending[i]]],
     contentPreferences |-> contentPreferences(preferences),
     personalizedSuggestions |-> generatePersonalizedSuggestions(interests, t),
     adaptiveInterface |-> getAdaptiveInterfaceSettings(personalityTraits)]

ContentInput == MkVisit(<< "AI" >>, "technology", One, 0)

InitContent ==
    /\ \E k \in 0..1 : EngineIdle(k)
    /\ db0 = db
    /\ sched = [running |-> 0, switches |-> 0]
    /\ procs = [p \in Calls |->
                  [v |-> [ContentInput EXCEPT !.pageData.url = UrlOf(p)],
                   pc |-> IF p = 1 THEN "record" ELSE "done",
                   i |-> 1, existing |-> << >>]]
    /\ now = 0
    /\ SeqIdle /\ ScenIdle /\ MoodIdle
    /\ SysIdle

ContentFrame ==
    /\ UNCHANGED << db, recentInteractions, retrained, userProfile, loadedProfile,
                    now, scen, engine, analyzer, timers, collector, nav, privacy,
                    requests, tabManager >>
    /\ UNCHANGED seqVars
    /\ UNCHANGED concVars
    /\ UNCHANGED moodVars

(* a read of a closed store rejects, and so does getPersonalizedContent *)
ContentRejects ==
    personalized' = [NoContent EXCEPT !.calls = personalized.calls + 1,
                                      !.threw = TRUE]

(* await this.db.interests.orderBy('strength').reverse().limit(10).toArray() *)
ContentReadInterests ==
    /\ personalized.pc = "idle"
    /\ personalized.calls < MaxContentCalls
    /\ IF engine.dbOpen
       THEN personalized' =
               [personalized EXCEPT
                   !.pc = "preferences",
                   !.interests = Limit(OrderByReverse(db.interests, "strength"), 10)]
       ELSE ContentRejects
    /\ ContentFrame

(* await this.db.preferences.orderBy('weight').reverse().toArray() *)
ContentReadPreferences ==
    /\ personalized.pc = "preferences"
    /\ IF engine.dbOpen
       THEN personalized' =
               [personalized EXCEPT
                   !.pc = "traits",
                   !.preferences = OrderByReverse(db.preferences, "weight")]
       ELSE ContentRejects
    /\ ContentFrame

(* faulty variant: the call records itself as an interaction *)
ContentReadTraits_Recording ==
    /\ personalized.pc = "traits"
    /\ personalized' = [NoContent EXCEPT !.calls = personalized.calls + 1]
    /\ db' = [db EXCEPT !.interactions =
                InteractionAdd(@, "content_request", "{}", now)]
    /\ UNCHANGED << recentInteractions, retrained, userProfile, loadedProfile,
                    now, scen, engine, analyzer, timers, collector, nav, privacy,
                    requests, tabManager >>
    /\ UNCHANGED seqVars
    /\ UNCHANGED concVars
    /\ UNCHANGED moodVars

(* await this.db.personalityTraits.toArray() and the return expression *)
ContentReadTraits ==
    /\ personalized.pc = "traits"
    /\ IF engine.dbOpen
       THEN \E trending \in [1..Len(personalized.interests) -> BOOLEAN] :
               personalized' =
                   [NoContent EXCEPT
                       !.calls = personalized.calls + 1,
                       !.value = PersonalizedContent(personalized.interests,
                                     personalized.preferences,
                                     db.personalityTraits, trending, now)]
       ELSE ContentRejects
    /\ ContentFrame

ContentVisitStep ==
    \/ RecordStep(1)
    \/ KeywordRead(1)
    \/ KeywordWriteStep(1)
    \/ CategoryRead(1)
    \/ CategoryWriteStep(1)
    \/ PatternStep(1)
    \/ TraitRead(1)
    \/ TraitWriteStep(1)
    \/ PreferenceRead(1)
    \/ PreferenceWriteStep(1)
    \/ RetrainStep(1)

NextContent ==
    \/ ContentVisitStep
    \/ ContentReadInterests
    \/ ContentReadPreferences
    \/ ContentReadTraits

SpecContent == InitContent /\ [][NextContent]_vars

----------------------------------------------------------------------------
(* SpecAdaptive: getPersonalizedContent over stores that hold arbitrary
   personality trait records (ipc personalization:getAdaptiveSettings returns
   its adaptiveInterface) *)

TraitInputNames == { "openness", "conscientiousness", "neuroticism", "extraversion" }

TraitScores == { 6000, 7000, 7001 }

TraitRecords(n, choice) ==
    [i \in 1..n |-> [id |-> i, trait |-> choice[i][1], score |-> choice[i][2],
                     confidence |-> 1000, lastUpdated |-> 0]]

InitAdaptive ==
    /\ \E n \in 0..MaxTraitRecords :
         \E choice \in [1..n -> TraitInputNames \X TraitScores] :
            db = [EmptyDB EXCEPT !.personalityTraits = TraitRecords(n, choice)]
    /\ recentInteractions = << >>
    /\ retrained = 0
    /\ userProfile = DefaultProfile
    /\ loadedProfile = [value |-> DefaultProfile, saves |-> 0, calls |-> 0]
    /\ now = 0
    /\ SeqIdle /\ ScenIdle /\ ProcsIdle /\ MoodIdle
    /\ SysIdle

NextAdaptive ==
    \/ ContentReadInterests
    \/ ContentReadPreferences
    \/ ContentReadTraits

SpecAdaptive == InitAdaptive /\ [][NextAdaptive]_vars

----------------------------------------------------------------------------
(* SpecLearn: page visits that differ in what the preference and personality
   updates read, applied one after the other to a new profile and to the
   profile that 90 earlier visits built *)

(* n updates of a preference of weight w by visits that observed the stored
   preference *)
RECURSIVE WeightAfter(_, _)
WeightAfter(w, n) ==
    IF w >= 0 /\ n = 0 THEN w
    ELSE WeightAfter(Mul(w, 9000) + Mul(1000, One), n - 1)

(* the weight of a preference after k >= 1 visits that all observed the
   stored preference: created with 0.1, then k - 1 updates, computed in runs
   of 30 *)
RECURSIVE PriorWeight(_)
PriorWeight(k) ==
    IF k <= 30 THEN WeightAfter(1000, k - 1)
    ELSE WeightAfter(PriorWeight(k - 30), 30)

(* the store after k >= 17 applications of updateFromPageVisit to PriorVisit at
   time 0: k interactions and behavior patterns, the 'technology' interest
   at 1.0, the traits at 0.5, and k - 1 confidence steps *)
LongPriorDB(k) ==
    LET first == PriorDB(1)
        confidence == Min2(One, 1000 + 100 * (k - 1))
    IN  [ userProfiles      |-> << >>,
          interactions      |-> [i \in 1..k |-> [first.interactions[1] EXCEPT !.id = i]],
          preferences       |-> [i \in 1..Len(first.preferences) |->
                                   [first.preferences[i] EXCEPT
                                       !.weight = PriorWeight(k),
                                       !.confidence = confidence]],
          behaviorPatterns  |-> [i \in 1..k |->
                                   [first.behaviorPatterns[1] EXCEPT !.id = i]],
          interests         |-> PriorDB(17).interests,
          personalityTraits |-> [i \in 1..Len(first.personalityTraits) |->
                                   [first.personalityTraits[i] EXCEPT
                                       !.confidence = confidence]] ]

LongPriorRecent(k) ==
    [i \in 1..Min2(k, 100) |-> PriorRecent(1)[1]]

LearnVisits ==
    { [pageData |-> [BasePage EXCEPT !.timeSpent = timeSpent],
       analysis |-> [BaseAnalysis EXCEPT !.category = category,
                                         !.engagement = One,
                                         !.complexity = complexity]] :
        category \in { "education", "business", "news" },
        complexity \in { "", "high" },
        timeSpent \in { 0, 301 } }

InitLearn ==
    /\ \/ EngineIdle(0)
       \/ /\ db = LongPriorDB(90)
          /\ recentInteractions = LongPriorRecent(90)
          /\ retrained = 0
          /\ userProfile = DefaultProfile
          /\ loadedProfile = [value |-> DefaultProfile, saves |-> 0, calls |-> 0]
    /\ now = 0
    /\ SeqIdle /\ ScenIdle /\ ProcsIdle /\ MoodIdle /\ SysIdle

LearnVisit ==
    \E v \in LearnVisits :
        /\ visitsDone < MaxLearnVisits
        /\ ApplyVisit(v)
        /\ UNCHANGED scen

NextLearn == LearnVisit

SpecLearn == InitLearn /\ [][NextLearn]_vars

----------------------------------------------------------------------------
(* SpecEngagement: RealTimeAnalyzer.predictEngagement.  The values of the
   factors are what the helper methods would return; a helper may return
   undefined. *)

EngagementFactors ==
    << "contentQuality", "readability", "mediaRichness", "interactivity",
       "personalRelevance", "timeliness", "socialSignals" >>

EngagementWeights ==
    [contentQuality |-> 2500, readability |-> 1500, mediaRichness |-> 1500,
     interactivity |-> 1000, personalRelevance |-> 2000, timeliness |-> 1000,
     socialSignals |-> 500]

(* the methods predictEngagement calls on this *)
EngagementHelpers ==
    { "assessContentQuality", "calculateMediaRichness", "assessInteractivity",
      "assessPersonalRelevance", "assessTimeliness", "extractSocialSignals",
      "categorizeEngagement", "calculatePredictionConfidence" }

(* a factor value: undefined, or a number *)
FactorValues == { [defined |-> FALSE, value |-> 0], [defined |-> TRUE, value |-> One] }

(* engagementScore += (value || 0) * weights[factor], over the factors *)
RECURSIVE WeightedSum(_, _)
WeightedSum(factors, i) ==
    IF i > Len(EngagementFactors) THEN 0
    ELSE LET factor == EngagementFactors[i]
             value == IF factors[factor].defined THEN factors[factor].value ELSE 0
         IN  Mul(value, EngagementWeights[factor]) + WeightedSum(factors, i + 1)

(* RealTimeAnalyzer.predictEngagement: helpers are the values the helper
   methods return, fleschScore is pageData.readability?.fleschScore (0 when
   absent).  A call of a method the class does not define is a TypeError. *)
predictEngagement(helpers, fleschScore) ==
    IF ~(EngagementHelpers \subseteq RealTimeAnalyzerMethods)
    THEN Throw("TypeError")
    ELSE LET factors == [f \in DOMAIN EngagementWeights |->
                            IF f = "readability"
                            THEN [defined |-> TRUE,
                                  value |-> OrNum(fleschScore, 50) * One]
                            ELSE helpers[f]]
             engagementScore == WeightedSum(factors, 1)
         IN  Return([score |-> IF engagementScore < 0 THEN 0
                               ELSE Min2(One, engagementScore),
                     factors |-> factors])

EngagementInputs ==
    [ helpers : [ (DOMAIN EngagementWeights) \ {"readability"} -> FactorValues ],
      fleschScore : { 0, 100 } ]

InitEngagement ==
    /\ EngineIdle(0)
    /\ now = 0
    /\ SeqIdle /\ ScenIdle /\ ProcsIdle /\ MoodIdle /\ SysIdle

(* a call of predictEngagement(pageData) on an initialized analyzer *)
PredictEngagement(input) ==
    LET e == predictEngagement(input.helpers, input.fleschScore)
    IN  /\ nav.count < MaxPredictions
        /\ nav' = [count |-> nav.count + 1, kind |-> "predictEngagement",
                   threw |-> e.threw, pageData |-> input,
                   analysis |-> IF e.threw THEN NoAnalysis ELSE e.value,
                   storeFailed |-> FALSE, sent |-> FALSE,
                   prev |-> NoNav.prev]
        /\ UNCHANGED << db, recentInteractions, retrained, analyzer, collector >>
        /\ UNCHANGED moodVars
        /\ NavFrame

PredictEngagementAny == \E input \in EngagementInputs : PredictEngagement(input)

NextEngagement == PredictEngagementAny

SpecEngagement == InitEngagement /\ [][NextEngagement]_vars

----------------------------------------------------------------------------
(* SpecMoodWeek: a few inferUserMood calls at any hour of any day of a week *)

InferUserMoodWeek == InferUserMoodUpTo(MaxWeekCalls)

WeekTick == TickUpTo(MaxWeekClock)

NextMoodWeek == InferUserMoodWeek \/ WeekTick

SpecMoodWeek == InitMood /\ [][NextMoodWeek]_vars

----------------------------------------------------------------------------
(* SpecRequests: the handlers that call RealTimeAnalyzer.inferUserMood, in
   flight at the same time.  A handler runs from one await to the next without
   interruption; inferUserMood has no await inside, so its body runs within
   the step that calls it. *)

HandlerKinds == { "getUserMood", "getContextualData", "getProactiveInsights" }

(* where a handler waits first: ipc analysis:getUserMood calls inferUserMood
   at once, getContextualData awaits dataCollector.getRecentActivity(24) *)
FirstPc(kind) == IF kind = "getUserMood" THEN "mood" ELSE "activity"

(* the await that follows the one at pc; ok: the awaited promise fulfilled.
   A rejection ends getContextualData and, in ipc
   assistant:getProactiveInsights, goes to the catch block. *)
NextPc(kind, pc, ok) ==
    IF ~ok THEN "done"
    ELSE IF pc = "activity" THEN "mood"
    ELSE IF pc = "mood" THEN (IF kind = "getUserMood" THEN "done" ELSE "projects")
    ELSE IF pc = "projects"
         THEN (IF kind = "getProactiveInsights" THEN "mood2" ELSE "done")
    ELSE IF pc = "mood2" THEN "activity2"
    ELSE IF pc = "activity2" THEN "suggest"
    ELSE "done"

(* the mood history after k inferUserMood calls at time 0 *)
PriorMoods(k) == [i \in 1..k |-> MoodSample(0)]

InitRequests ==
    /\ EngineIdle(0)
    /\ now = 0
    /\ SeqIdle /\ ScenIdle /\ ProcsIdle
    /\ \E k \in {0, 49} :
          /\ userMoodHistory = PriorMoods(k)
          /\ moodCalls = PriorMoods(k)
          /\ requests = [prior |-> k, handlers |-> << >>]
    /\ lastMood = [mood |-> "neutral", confidence |-> 5000]
    /\ sessionInteractions = << >>
    /\ personalMood = "neutral"
    /\ engine = [shutdown |-> "idle", dbOpen |-> TRUE, adaptiveWeights |-> {},
                 pcAtSave |-> "none", pcAtClose |-> "none"]
    /\ analyzer = [isInitialized |-> TRUE, shutdown |-> FALSE,
                   activeAnalyses |-> {}, contextualFactors |-> NoFactors]
    /\ timers = [fires |-> [t \in TimerNames |-> 0], late |-> {}]
    /\ collector = NoCollector
    /\ nav = NoNav
    /\ personalized = NoContent
    /\ privacy = NoPrivacy
    /\ tabManager = NoTabs

RequestFrame ==
    /\ UNCHANGED << now, scen, engine, analyzer, timers, collector, nav, personalized,
                    privacy, tabManager, sessionInteractions, personalMood >>
    /\ UNCHANGED engineVars
    /\ UNCHANGED seqVars
    /\ UNCHANGED concVars

(* a handler is invoked and runs up to its first await *)
RequestStart(kind) ==
    /\ Len(requests.handlers) < MaxRequests
    /\ requests' = [requests EXCEPT !.handlers =
                      Append(@, [kind |-> kind, pc |-> FirstPc(kind), issued |-> 0])]
    /\ UNCHANGED << userMoodHistory, moodCalls, lastMood >>
    /\ RequestFrame

(* an await of a handler that is not a call of inferUserMood completes:
   getRecentActivity (which catches its errors), getActiveProjects (which
   reads the profile store), generateSuggestions *)
RequestAwait(r) ==
    /\ requests.handlers[r].pc \in { "activity", "projects", "activity2", "suggest" }
    /\ requests' = [requests EXCEPT !.handlers[r].pc =
                      NextPc(requests.handlers[r].kind, @,
                             @ # "projects" \/ engine.dbOpen)]
    /\ UNCHANGED << userMoodHistory, moodCalls, lastMood >>
    /\ RequestFrame

(* faulty variant: the sample of a call is dropped while another handler is
   in flight *)
RequestMood_Dropped(r) ==
    /\ requests.handlers[r].pc \in { "mood", "mood2" }
    /\ userMoodHistory' =
          IF \E q \in 1..Len(requests.handlers) :
                q # r /\ requests.handlers[q].pc # "done"
          THEN userMoodHistory
          ELSE MoodHistoryPush(userMoodHistory, MoodSample(now))
    /\ moodCalls' = Append(moodCalls, MoodSample(now))
    /\ lastMood' = [mood |-> MoodSample(now).mood,
                    confidence |-> MoodSample(now).confidence]
    /\ requests' = [requests EXCEPT
                      !.handlers[r].pc = NextPc(requests.handlers[r].kind, @, TRUE),
                      !.handlers[r].issued = @ + 1]
    /\ RequestFrame

(* await this.realTimeAnalyzer.inferUserMood(): the call pushes its sample
   before the handler is suspended *)
RequestMood(r) ==
    /\ requests.handlers[r].pc \in { "mood", "mood2" }
    /\ userMoodHistory' = MoodHistoryPush(userMoodHistory, MoodSample(now))
    /\ moodCalls' = Append(moodCalls, MoodSample(now))
    /\ lastMood' = [mood |-> MoodSample(now).mood,
                    confidence |-> MoodSample(now).confidence]
    /\ requests' = [requests EXCEPT
                      !.handlers[r].pc = NextPc(requests.handlers[r].kind, @, TRUE),
                      !.handlers[r].issued = @ + 1]
    /\ RequestFrame

RequestStartAny == \E kind \in HandlerKinds : RequestStart(kind)

RequestAwaitAny == \E r \in 1..Len(requests.handlers) : RequestAwait(r)

RequestMoodAny == \E r \in 1..Len(requests.handlers) : RequestMood(r)

RequestTick == TickUpTo(MaxRequestClock)

NextRequests ==
    \/ RequestStartAny
    \/ RequestAwaitAny
    \/ RequestMoodAny
    \/ RequestTick

SpecRequests == InitRequests /\ [][NextRequests]_vars

(* the inferUserMood calls the handlers have made *)
RECURSIVE IssuedUpTo(_)
IssuedUpTo(r) ==
    IF r = 0 THEN 0 ELSE requests.handlers[r].issued + IssuedUpTo(r - 1)

----------------------------------------------------------------------------
(* SpecClassify: calls of RealTimeAnalyzer.classifyContent on an initialized
   analyzer.  The text is the lower-cased nouns and verbs joined by blanks. *)

ClassifyInputs ==
    { "", "weather", "software for a computer", "news about a game", "study",
      "tech software computer programming", "sports team game", "ai research",
      "technology news report", "game player study", "travel food",
      "market economy finance" }

InitClassify ==
    /\ EngineIdle(0)
    /\ now = 0
    /\ SeqIdle /\ ScenIdle /\ ProcsIdle /\ MoodIdle /\ SysIdle

(* a call of classifyContent; pageData keeps the text and the values of
   bestCategory and bestScore when the loop over the table has ended *)
ClassifyContent(text) ==
    LET c == classifyContent(text)
        best == BestCategory(text, 1, "general", 0)
    IN  /\ nav.count < MaxClassifications
        /\ nav' = [count |-> nav.count + 1, kind |-> "classifyContent",
                   threw |-> c.threw,
                   pageData |-> [text |-> text, bestCategory |-> best.primary,
                                 bestScore |-> best.score],
                   analysis |-> IF c.threw THEN NoAnalysis ELSE c.value,
                   storeFailed |-> FALSE, sent |-> FALSE,
                   prev |-> PrevCall]
        /\ UNCHANGED << db, recentInteractions, retrained, analyzer, collector >>
        /\ UNCHANGED moodVars
        /\ NavFrame

ClassifyContentAny == \E text \in ClassifyInputs : ClassifyContent(text)

NextClassify == ClassifyContentAny

SpecClassify == InitClassify /\ [][NextClassify]_vars

----------------------------------------------------------------------------
(* SpecReadability: calls of RealTimeAnalyzer.analyzeReadability.  A text is
   given by its counts: words (text.split(/\s+/), non-empty), sentences
   (text.split(/[.!?]+/), non-blank) and syllables (countSyllables).  A score
   is kept exactly, as a fraction num/den with den > 0, or as NaN or
   -Infinity. *)

NaN == [kind |-> "NaN", num |-> 0, den |-> 1]

NegInfinity == [kind |-> "-Infinity", num |-> 0, den |-> 1]

Num(num, den) == [kind |-> "number", num |-> num, den |-> den]

(* 206.835 - (1.015 * avgSentenceLength) - (84.6 * avgSyllablesPerWord), with
   avgSentenceLength = words / sentences and avgSyllablesPerWord =
   syllables / words: 0 / 0 is NaN, words / 0 is Infinity *)
fleschScore(words, sentences, syllables) ==
    IF words = 0 THEN NaN
    ELSE IF sentences = 0 THEN NegInfinity
    ELSE Num(206835 * sentences * words - 1015 * words * words
                - 84600 * syllables * sentences,
             1000 * sentences * words)

(* score >= n and score <= n; every comparison with NaN is false *)
AtLeast(score, n) == score.kind = "number" /\ score.num >= n * score.den

AtMost(score, n) ==
    \/ score.kind = "-Infinity"
    \/ score.kind = "number" /\ score.num <= n * score.den

(* Math.max(0, Math.min(100, score)); NaN stays NaN *)
ClampScore(score) ==
    IF score.kind = "NaN" THEN NaN
    ELSE IF AtMost(score, 0) THEN Num(0, 1)
    ELSE IF AtLeast(score, 100) THEN Num(100, 1)
    ELSE score

(* the values analyzeReadability has computed when it builds its result *)
ReadabilityLocals(words, sentences, syllables) ==
    LET score == fleschScore(words, sentences, syllables)
    IN  [fleschScore |-> ClampScore(score),
         difficulty |-> IF AtLeast(score, 70) THEN "easy"
                        ELSE IF AtMost(score, 30) THEN "hard"
                        ELSE "medium"]

(* RealTimeAnalyzer.analyzeReadability; the result is built with
   this.getReadingLevel(gradeLevel) *)
analyzeReadability(words, sentences, syllables) ==
    IF "getReadingLevel" \in RealTimeAnalyzerMethods
    THEN Return(ReadabilityLocals(words, sentences, syllables))
    ELSE Throw("TypeError")

(* the counts of a text: a text without a word has no sentence and no
   syllable, a text without a sentence (only '.', '!', '?' and blanks) has no
   syllable *)
ReadabilityInputs ==
    { c \in [words : 0..MaxWords, sentences : 0..MaxSentences,
             syllables : 0..MaxSyllables] :
        /\ c.words = 0 => c.sentences = 0
        /\ c.sentences = 0 => c.syllables = 0 }

InitReadability ==
    /\ EngineIdle(0)
    /\ now = 0
    /\ SeqIdle /\ ScenIdle /\ ProcsIdle /\ MoodIdle /\ SysIdle

(* a call of analyzeReadability; pageData keeps the counts of the text and
   the values computed before the result is built *)
AnalyzeReadability(c) ==
    LET r == analyzeReadability(c.words, c.sentences, c.syllables)
    IN  /\ nav.count < MaxReadings
        /\ nav' = [count |-> nav.count + 1, kind |-> "analyzeReadability",
                   threw |-> r.threw,
                   pageData |-> [counts |-> c,
                                 locals |-> ReadabilityLocals(c.words, c.sentences,
                                                              c.syllables)],
                   analysis |-> IF r.threw THEN NoAnalysis ELSE r.value,
                   storeFailed |-> FALSE, sent |-> FALSE,
                   prev |-> NoNav.prev]
        /\ UNCHANGED << db, recentInteractions, retrained, analyzer, collector >>
        /\ UNCHANGED moodVars
        /\ NavFrame

AnalyzeReadabilityAny == \E c \in ReadabilityInputs : AnalyzeReadability(c)

NextReadability == AnalyzeReadabilityAny

SpecReadability == InitReadability /\ [][NextReadability]_vars

----------------------------------------------------------------------------
(* SpecTopInterests: the last getPersonalizedContent call of a behaviour, over
   a profile with more interests than the query returns, with page visits
   between its reads *)

(* as SysIdle, with one getPersonalizedContent call left to make *)
SysIdleLastCall ==
    /\ engine = [shutdown |-> "idle", dbOpen |-> TRUE, adaptiveWeights |-> {},
                 pcAtSave |-> "none", pcAtClose |-> "none"]
    /\ analyzer = [isInitialized |-> TRUE, shutdown |-> FALSE,
                   activeAnalyses |-> {}, contextualFactors |-> NoFactors]
    /\ timers = [fires |-> [t \in TimerNames |-> 0], late |-> {}]
    /\ collector = NoCollector
    /\ nav = NoNav
    /\ personalized = [NoContent EXCEPT !.calls = MaxContentCalls - 1]
    /\ privacy = NoPrivacy
    /\ requests = NoRequests
    /\ tabManager = NoTabs

TopTopics ==
    << "t01", "t02", "t03", "t04", "t05", "t06", "t07", "t08", "t09", "t10",
       "t11", "t12" >>

(* the visit that built the profile: its keywords are the first n topics *)
TopFirstVisit(n) == MkVisit(SubSeq(TopTopics, 1, n), "", One, 0)

TopVisits ==
    { MkVisit(<< "t03" >>, "", One, One),
      MkVisit(<< "t11", "t12" >>, "", One, 0),
      MkVisit(<< "t13" >>, "", 8000, 0),
      MkVisit(<< >>, "t07", One, 0) }

InitTopInterests ==
    /\ \E n \in {4, Len(TopTopics)} :
          /\ db = updateFromPageVisit(EmptyDB, TopFirstVisit(n), 0)
          /\ recentInteractions =
                RecentPush(<< >>, "page_visit",
                           VisitInteractionData(TopFirstVisit(n).pageData,
                                                TopFirstVisit(n).analysis), 0)
    /\ retrained = 0
    /\ userProfile = DefaultProfile
    /\ loadedProfile = [value |-> DefaultProfile, saves |-> 0, calls |-> 0]
    /\ now = 0
    /\ SeqIdle /\ ScenIdle /\ ProcsIdle /\ MoodIdle /\ SysIdleLastCall

(* one call of updateFromPageVisit, from entry to return *)
TopVisit ==
    /\ visitsDone < MaxTopVisits
    /\ \E v \in TopVisits : ApplyVisit(v)
    /\ UNCHANGED scen

NextTopInterests ==
    \/ TopVisit
    \/ ContentReadInterests
    \/ ContentReadPreferences
    \/ ContentReadTraits

SpecTopInterests == InitTopInterests /\ [][NextTopInterests]_vars

----------------------------------------------------------------------------
(* SpecTraits: page visits that move every personality trait, from an empty
   profile and from a long-lived one, and a getPersonalizedContent call *)

TraitVisit(category, complexity, timeSpent, sentiment) ==
    [pageData |-> [BasePage EXCEPT !.timeSpent = timeSpent],
     analysis |-> [BaseAnalysis EXCEPT !.category = category,
                                       !.engagement = One,
                                       !.complexity = complexity,
                                       !.sentiment = sentiment]]

TraitVisits ==
    { TraitVisit("education", "high", 301, "negative"),
      TraitVisit("arts", "high", 0, ""),
      TraitVisit("business", "", 301, ""),
      TraitVisit("social", "", 0, ""),
      TraitVisit("news", "", 0, ""),
      TraitVisit("", "", 0, "") }

InitTraits ==
    /\ \/ EngineIdle(0)
       \/ /\ db = LongPriorDB(90)
          /\ recentInteractions = LongPriorRecent(90)
          /\ retrained = 0
          /\ userProfile = DefaultProfile
          /\ loadedProfile = [value |-> DefaultProfile, saves |-> 0, calls |-> 0]
    /\ now = 0
    /\ SeqIdle /\ ScenIdle /\ ProcsIdle /\ MoodIdle /\ SysIdleLastCall

TraitsVisit ==
    \E v \in TraitVisits :
        /\ visitsDone < MaxTraitVisits
        /\ ApplyVisit(v)
        /\ UNCHANGED scen

NextTraits ==
    \/ TraitsVisit
    \/ ContentReadInterests
    \/ ContentReadPreferences
    \/ ContentReadTraits

SpecTraits == InitTraits /\ [][NextTraits]_vars

----------------------------------------------------------------------------
(* SpecTabs: TabManager.createTab, setActiveTab and closeTab, which run
   without an await; the BrowserView of a tab and the messages to the
   renderer are left out *)

TabIds(tm) == { tm.tabs[i].id : i \in 1..Len(tm.tabs) }

(* TabManager.setActiveTab *)
setActiveTab(tm, tabId) ==
    IF tabId \notin TabIds(tm)
    THEN [tm EXCEPT !.last = [op |-> "setActiveTab", tabId |-> tabId,
                              returned |-> FALSE]]
    ELSE [tm EXCEPT !.activeTabId = tabId,
                    !.last = [op |-> "setActiveTab", tabId |-> tabId,
                              returned |-> TRUE]]

(* TabManager.createTab; it returns the id of the new tab *)
createTab(tm, url, background) ==
    LET tabId == tm.tabCounter + 1
        added == [tm EXCEPT !.tabCounter = tabId,
                            !.tabs = Append(@, [id |-> tabId, url |-> url]),
                            !.issued = Append(@, tabId)]
        shown == IF ~background THEN setActiveTab(added, tabId) ELSE added
    IN  [shown EXCEPT !.last = [op |-> "createTab", tabId |-> tabId,
                                returned |-> tabId]]

(* this.tabs.delete(tabId) *)
TabsDelete(tabs, tabId) == SelectSeq(tabs, LAMBDA tab : tab.id # tabId)

(* faulty variant: closing the active tab leaves activeTabId as it is *)
closeTab_KeepActive(tm, tabId) ==
    IF tabId \notin TabIds(tm)
    THEN [tm EXCEPT !.last = [op |-> "closeTab", tabId |-> tabId,
                              returned |-> FALSE]]
    ELSE LET deleted == [tm EXCEPT !.tabs = TabsDelete(@, tabId)]
             refilled == IF Len(deleted.tabs) = 0
                         THEN createTab(deleted, "https://www.google.com", TRUE)
                         ELSE deleted
         IN  [refilled EXCEPT !.last = [op |-> "closeTab", tabId |-> tabId,
                                        returned |-> TRUE]]

(* faulty variant: closing the last tab leaves the map empty *)
closeTab_NoFresh(tm, tabId) ==
    IF tabId \notin TabIds(tm)
    THEN [tm EXCEPT !.last = [op |-> "closeTab", tabId |-> tabId,
                              returned |-> FALSE]]
    ELSE LET otherTabs == TabsDelete(tm.tabs, tabId)
             switched == IF tm.activeTabId = tabId
                         THEN IF Len(otherTabs) > 0
                              THEN setActiveTab(tm, otherTabs[Len(otherTabs)].id)
                              ELSE [tm EXCEPT !.activeTabId = 0]
                         ELSE tm
             deleted == [switched EXCEPT !.tabs = TabsDelete(@, tabId)]
         IN  [deleted EXCEPT !.last = [op |-> "closeTab", tabId |-> tabId,
                                       returned |-> TRUE]]

(* TabManager.closeTab *)
closeTab(tm, tabId) ==
    IF tabId \notin TabIds(tm)
    THEN [tm EXCEPT !.last = [op |-> "closeTab", tabId |-> tabId,
                              returned |-> FALSE]]
    ELSE LET otherTabs == TabsDelete(tm.tabs, tabId)
             switched == IF tm.activeTabId = tabId
                         THEN IF Len(otherTabs) > 0
                              THEN setActiveTab(tm, otherTabs[Len(otherTabs)].id)
                              ELSE [tm EXCEPT !.activeTabId = 0]
                         ELSE tm
             deleted == [switched EXCEPT !.tabs = TabsDelete(@, tabId)]
             refilled == IF Len(deleted.tabs) = 0
                         THEN createTab(deleted, "https://www.google.com", FALSE)
                         ELSE deleted
         IN  [refilled EXCEPT !.last = [op |-> "closeTab", tabId |-> tabId,
                                        returned |-> TRUE]]

TabUrls == { "https://www.google.com", "nexus://newtab" }

InitTabs ==
    /\ EngineIdle(0)
    /\ now = 0
    /\ SeqIdle /\ ScenIdle /\ ProcsIdle /\ MoodIdle /\ SysIdle

TabFrame ==
    /\ UNCHANGED << now, scen, engine, analyzer, timers, collector, nav, personalized,
                    privacy, requests >>
    /\ UNCHANGED engineVars
    /\ UNCHANGED seqVars
    /\ UNCHANGED concVars
    /\ UNCHANGED moodVars

(* a call of createTab(url, background) *)
CreateTab(url, background) ==
    /\ tabManager.tabCounter < MaxTabs
    /\ tabManager' = createTab(tabManager, url, background)
    /\ TabFrame

(* a call of setActiveTab(tabId), with the id of a tab or another id *)
SetActiveTab(tabId) ==
    /\ tabManager' = setActiveTab(tabManager, tabId)
    /\ TabFrame

(* a call of closeTab(tabId), with the id of a tab or another id *)
CloseTab(tabId) ==
    /\ tabManager.tabCounter < MaxTabs
    /\ tabManager' = closeTab(tabManager, tabId)
    /\ TabFrame

CreateTabAny == \E url \in TabUrls, background \in BOOLEAN : CreateTab(url, background)

SetActiveTabAny == \E tabId \in 1..(MaxTabs + 1) : SetActiveTab(tabId)

CloseTabAny == \E tabId \in 1..(MaxTabs + 1) : CloseTab(tabId)

NextTabs == CreateTabAny \/ SetActiveTabAny \/ CloseTabAny

SpecTabs == InitTabs /\ [][NextTabs]_vars

----------------------------------------------------------------------------
(* C1: after any sequence of page visits with engagement in [0,1], every
   stored Interest record has a strength of at least 0 and at most 1. *)
C1_StrengthInRange ==
    \A i \in 1..Len(db.interests) :
        db.interests[i].strength >= 0 /\ db.interests[i].strength <= One

(* an existing interest was reinforced by the last visit and sits at the cap *)
C1_Witness ==
    /\ visitsDone > 0
    /\ \E i \in 1..Len(db.interests) :
          /\ db.interests[i].strength = One
          /\ db.interests[i].topic \in TopicsOf(lastVisit)

(* C5: decay law.  A visit whose keywords and category do not include topic t
   leaves the strength of t no higher than it was, and never below 0. *)
C5_DecayLaw ==
    [][ \A t \in AllTopics :
          (visitsDone' = visitsDone + 1 /\ t \notin TopicsOf(lastVisit'))
          => /\ StrengthOf(db'.interests, t) <= StrengthOf(db.interests, t)
             /\ StrengthOf(db'.interests, t) >= 0 ]_vars

(* a visit without evidence for a topic that has a positive strength *)
C5_Witness ==
    /\ visitsDone > 0
    /\ \E t \in AllTopics :
          /\ t \notin TopicsOf(lastVisit)
          /\ TopicsOf(lastVisit) # {}
          /\ StrengthOf(db.interests, t) > 0

(* C6 as stated: 50 further visits without technology evidence leave the
   technology strength strictly lower than at the start of the run. *)
C6_StrictDecay ==
    (scen.phase = "B" /\ scen.count = ScenarioBVisits)
    => StrengthOf(db.interests, "technology") < scen.startB

(* C7 as stated: five technology visits with engagement 0.8 leave the
   technology strength strictly higher than before, whatever the start. *)
C7_AlwaysHigher ==
    scen.phase = "Adone" => StrengthOf(db.interests, "technology") > scen.startA

(* C7 amended: five technology visits with engagement 0.8 leave the technology
   strength strictly higher than before when it was below 1.0 before, and
   leave it at 1.0 when it was 1.0 before. *)
C7_HigherBelowCap ==
    scen.phase = "Adone"
    => /\ scen.startA < One => StrengthOf(db.interests, "technology") > scen.startA
       /\ scen.startA = One => StrengthOf(db.interests, "technology") = One

(* scenario A ran on a profile whose technology interest was below the cap *)
C7_Witness ==
    /\ scen.phase = "Adone"
    /\ scen.startA > 0 /\ scen.startA < One
    /\ StrengthOf(db.interests, "technology") > scen.startA

(* C2 as stated: when two calls of updateFromPageVisit that were in flight
   together have both returned, the stored interests, content preferences and
   personality traits are those of applying the two visits one after the
   other in some order. *)
C2_Serializable ==
    (\A p \in Calls : procs[p].pc = "done")
    => \E o \in CallOrders : ProfileView(db) = ProfileView(ApplyInOrder(db0, o, 1))

(* C3 as stated: a visit whose store operation failed leaves none of its
   changes in the store: no interaction or behavior pattern of that visit,
   and, when no other call has started, the store as it was before. *)
C3_AllOrNothing ==
    \A p \in Calls :
        procs[p].pc = "failed"
        => /\ \A i \in 1..Len(db.interactions) :
                JSONparse(db.interactions[i].data).url # procs[p].v.pageData.url
           /\ \A i \in 1..Len(db.behaviorPatterns) :
                db.behaviorPatterns[i].contexts[1].url # procs[p].v.pageData.url
           /\ (\A q \in Calls \ {p} : procs[q].pc = "record") => db = db0

(* C4 as stated: the interests store never holds two records with the same
   topic, whatever the interleaving of the visits. *)
C4_UniqueTopic ==
    \A i, j \in 1..Len(db.interests) :
        db.interests[i].topic = db.interests[j].topic => i = j

(* C8: after n calls of inferUserMood the history holds min(n, 50) samples,
   and they are the most recent ones in call order. *)
C8_MostRecentFifty ==
    /\ Len(userMoodHistory) = Min2(Len(moodCalls), 50)
    /\ userMoodHistory = SubSeq(moodCalls, Len(moodCalls) - Len(userMoodHistory) + 1,
                                Len(moodCalls))

(* the 51st sample was appended and the evicted oldest sample differs from
   the newest one *)
C8_Witness ==
    /\ Len(moodCalls) > 50
    /\ Len(userMoodHistory) = 50
    /\ moodCalls[1] # moodCalls[Len(moodCalls)]
    /\ userMoodHistory[1] # moodCalls[1]

(* C9 as stated: with fewer than 5 interaction events in the window, mood
   inference yields the explicit label insufficient_data, not a guess. *)
C9_InsufficientData ==
    Len(sessionInteractions) < 5
    => /\ Len(moodCalls) > 0 => lastMood.mood = "insufficient_data"
       /\ Len(sessionInteractions) > 0 => personalMood = "insufficient_data"

(* C10 as stated: getUserProfile after saveUserProfile returns the profile
   that was saved last, also when earlier saves exist. *)
C10_RoundTrip ==
    (loadedProfile.calls > 0 /\ loadedProfile.saves > 0
        /\ loadedProfile.saves = Len(db.userProfiles))
    => loadedProfile.value = JSONparse(db.userProfiles[Len(db.userProfiles)].data)

(* C11 as stated: the userProfiles store holds at most one record per user
   identity after any number of periodic or shutdown saves. *)
C11_OneProfilePerUser ==
    \A i, j \in 1..Len(db.userProfiles) :
        db.userProfiles[i].userId = db.userProfiles[j].userId => i = j

(* C12 as stated: after shutdown() of the PersonalizationEngine or of the
   RealTimeAnalyzer has completed, none of their periodic tasks (profile
   persistence, recent-pattern re-analysis, analysis cleanup,
   contextual-factor refresh) runs again. *)
C12_TimersCancelled == timers.late = {}

(* C13 as stated: when shutdown() is called while an updateFromPageVisit is
   in flight, all sub-updates of that visit are in the store before the store
   is closed. *)
C13_FlushBeforeClose ==
    (engine.shutdown = "closed" /\ engine.pcAtSave \notin {"none", "done", "failed"})
    => engine.pcAtClose \in {"retrain", "done"}

(* C14 as stated: analyzePage is total: for every pageData (null, empty or
   malformed data included) and in every analyzer state (before initialize()
   included) it returns an analysis and never throws or rejects; a degraded
   result has error = true, category 'general', language 'english' and neutral
   sentiment. *)
C14_AnalyzePageTotal ==
    nav.kind = "analyzePage"
    => /\ ~nav.threw
       /\ nav.analysis.error
          => /\ nav.analysis.content.category.primary = "general"
             /\ nav.analysis.content.language.primary = "english"
             /\ nav.analysis.emotions.sentiment.polarity = "neutral"

(* C15: for a page with empty text, the analysis analyzePage returns has
   category primary 'general' with confidence <= 0.3 and an engagement score of
   exactly 0.5. *)
C15_EmptyTextFallback ==
    (nav.kind = "analyzePage" /\ ~nav.threw /\ nav.pageData.content = "")
    => /\ nav.analysis.content.category.primary = "general"
       /\ nav.analysis.content.category.confidence <= 3000
       /\ nav.analysis.engagement.score = 5000

(* analyzePage returned for a page with empty text *)
C15_Witness ==
    /\ nav.kind = "analyzePage" /\ ~nav.threw
    /\ ~nav.pageData.isNull
    /\ nav.pageData.content = ""
    /\ nav.analysis.error

(* C16 as stated: in handlePageNavigation, when the profile store is
   unavailable or a write inside updateFromPageVisit fails, the analysis
   already computed is still delivered: 'page-analysis' is sent. *)
C16_AnalysisDelivered ==
    (nav.kind = "navigation" /\ ~nav.threw /\ nav.storeFailed) => nav.sent

(* C17 as stated: the retraining hook fires once for every 100 accumulated
   interactions: whatever the sequence of recorded interactions (page visits,
   preference updates, settings updates), retrainModels has run once for every
   multiple of 100 the stored interaction count has reached. *)
C17_RetrainEveryHundred == retrained = Len(db.interactions) \div 100

(* C18: privacy:clearData with a retention window of d days deletes exactly the
   entries of the selected collections (pageViews, interactions) that are
   older than now minus d days and changes nothing else; with clearAll it
   leaves no entry in the data-collection store and none in the
   personalization store. *)
C18_ClearDataExact ==
    [][ privacy'.calls # privacy.calls =>
        LET o == privacy'.options
            cutoffTime == now - o.days * 3
        IN  IF o.clearAll
            THEN /\ collector'.pageViews = << >>
                 /\ collector'.interactions = << >>
                 /\ collector'.performanceMetrics = << >>
                 /\ \A t \in DOMAIN db' : db'[t] = << >>
            ELSE /\ collector'.pageViews =
                       IF o.pageViews
                       THEN SelectSeq(collector.pageViews,
                                      LAMBDA r : r.timestamp >= cutoffTime)
                       ELSE collector.pageViews
                 /\ collector'.interactions =
                       IF o.interactions
                       THEN SelectSeq(collector.interactions,
                                      LAMBDA r : r.timestamp >= cutoffTime)
                       ELSE collector.interactions
                 /\ collector'.performanceMetrics = collector.performanceMetrics
                 /\ db' = db ]_vars

(* C19: getPersonalizedContent is read-only: with any number of calls before,
   during and after a page-visit update, the profile store is the store
   without those calls: the initial one until the update starts, and the
   result of the update alone once it is done. *)
C19_ContentReadOnly ==
    /\ procs[1].pc = "record" => db = db0
    /\ procs[1].pc = "done" => db = updateFromPageVisit(db0, procs[1].v, now)

C19_Witness ==
    /\ procs[1].pc = "done"
    /\ personalized.calls = MaxContentCalls
    /\ personalized.pc = "idle"
    /\ ~personalized.threw
    /\ Len(personalized.value.recommendedTopics) = 1
    /\ personalized.value.recommendedTopics[1].topic = "ai"
    /\ Len(db.interests) = 2

(* C20 as stated: for every set of stored trait records the settings are
   complexity 'high' and informationDensity 'dense' when openness > 0.7,
   interactionStyle 'organized' when conscientiousness > 0.7, colorScheme
   'calming' and informationDensity 'sparse' when neuroticism > 0.6, and the
   default for each setting whose trait is missing or not above its
   threshold (a trait's score being that of its first stored record). *)
C20_AsStated ==
    (personalized.calls > 0 /\ ~personalized.threw) =>
        LET s == personalized.value.adaptiveInterface
            traits == db.personalityTraits
            Above(trait, threshold) ==
                /\ \E i \in 1..Len(traits) : traits[i].trait = trait
                /\ FirstByTrait(traits, trait)[1].score > threshold
            open == Above("openness", 7000)
            cons == Above("conscientiousness", 7000)
            neur == Above("neuroticism", 6000)
        IN  /\ open => s.complexity = "high" /\ s.informationDensity = "dense"
            /\ cons => s.interactionStyle = "organized"
            /\ neur => s.colorScheme = "calming" /\ s.informationDensity = "sparse"
            /\ ~open => s.complexity = "medium"
            /\ ~cons => s.interactionStyle = "standard"
            /\ ~neur => s.colorScheme = "balanced"
            /\ (~open /\ ~neur) => s.informationDensity = "medium"

(* C20 amended: as C20, except that informationDensity is 'sparse' whenever
   neuroticism > 0.6, and 'dense' only when openness > 0.7 and neuroticism is
   not above 0.6. *)
C20_NeuroticismOverrides ==
    (personalized.calls > 0 /\ ~personalized.threw) =>
        LET s == personalized.value.adaptiveInterface
            traits == db.personalityTraits
            Above(trait, threshold) ==
                /\ \E i \in 1..Len(traits) : traits[i].trait = trait
                /\ FirstByTrait(traits, trait)[1].score > threshold
            open == Above("openness", 7000)
            cons == Above("conscientiousness", 7000)
            neur == Above("neuroticism", 6000)
        IN  /\ s.complexity = IF open THEN "high" ELSE "medium"
            /\ s.interactionStyle = IF cons THEN "organized" ELSE "standard"
            /\ s.colorScheme = IF neur THEN "calming" ELSE "balanced"
            /\ s.informationDensity =
                   IF neur THEN "sparse" ELSE IF open THEN "dense" ELSE "medium"

C20_Witness ==
    /\ personalized.calls > 0
    /\ ~personalized.threw
    /\ personalized.value.adaptiveInterface =
          [complexity |-> "high", colorScheme |-> "calming",
           informationDensity |-> "sparse", interactionStyle |-> "organized"]

(* C21: every visit leaves every stored content preference with a weight in
   [0,1] and a confidence of at most 1.0; it changes an existing preference
   to weight 0.9*old + 0.1*match (match = 1 when the observed value equals
   the stored preference, else 0) and confidence min(1.0, old + 0.01), which
   is never below the old confidence. *)
C21_PreferenceUpdate ==
    [][ visitsDone' # visitsDone =>
        /\ \A i \in 1..Len(db'.preferences) :
              /\ db'.preferences[i].weight >= 0
              /\ db'.preferences[i].weight <= One
              /\ db'.preferences[i].confidence <= One
        /\ \A i \in 1..Len(db.preferences) :
              LET old == db.preferences[i]
                  new == db'.preferences[i]
                  observed == ObservedPreferences(lastVisit'.analysis)[old.category]
                  match == IF observed = old.preference THEN One ELSE 0
              IN  /\ new.category = old.category
                  /\ new.preference = old.preference
                  /\ new.weight = Mul(9000, old.weight) + Mul(1000, match)
                  /\ new.confidence >= old.confidence
                  /\ new.confidence =
                        IF old.confidence + 100 > One THEN One
                        ELSE old.confidence + 100 ]_vars

C21_Witness ==
    /\ visitsDone >= 2
    /\ \E i \in 1..Len(db.preferences) :
          /\ db.preferences[i].confidence = One
          /\ db.preferences[i].weight < PriorWeight(90)
          /\ db.preferences[i].preference #
                ObservedPreferences(lastVisit.analysis)[db.preferences[i].category]

(* C22: every visit leaves every stored personality estimate with one of the
   five fixed traits and a confidence of at most 1.0; it changes an existing
   estimate to score 0.9*old + 0.1*inferred, where inferred is the score the
   visit infers for the trait, and never lowers its confidence. *)
C22_TraitUpdate ==
    [][ visitsDone' # visitsDone =>
        /\ \A i \in 1..Len(db'.personalityTraits) :
              /\ db'.personalityTraits[i].trait \in
                    { "openness", "conscientiousness", "extraversion",
                      "agreeableness", "neuroticism" }
              /\ db'.personalityTraits[i].confidence <= One
        /\ \A i \in 1..Len(db.personalityTraits) :
              LET old == db.personalityTraits[i]
                  new == db'.personalityTraits[i]
                  inferred == inferPersonalityTraits(lastVisit'.pageData,
                                                     lastVisit'.analysis)[old.trait]
              IN  /\ new.trait = old.trait
                  /\ new.score = Mul(9000, old.score) + Mul(1000, inferred)
                  /\ new.confidence >= old.confidence ]_vars

C22_Witness ==
    /\ visitsDone >= 2
    /\ \E i \in 1..Len(db.personalityTraits) :
          /\ db.personalityTraits[i].trait = "openness"
          /\ db.personalityTraits[i].confidence = One
          /\ db.personalityTraits[i].score > 5000

(* C23: two analyzePage calls with the same page input have the same outcome
   and, when they return, the same content analysis, whatever the analyzer
   state and the time of each call. *)
C23_Deterministic ==
    (nav.count >= 2 /\ nav.pageData = nav.prev.pageData)
    => /\ nav.threw = nav.prev.threw
       /\ ~nav.threw => nav.analysis.content = nav.prev.analysis.content

(* C24: predictEngagement returns, for every combination of factor values, a
   score within [0,1] that is the clamped weighted sum of the factors with
   weights 0.25/0.15/0.15/0.10/0.20/0.10/0.05, a missing factor counting 0. *)
C24_EngagementScore ==
    nav.kind = "predictEngagement"
    => /\ ~nav.threw
       /\ LET h == nav.pageData.helpers
              V(f) == IF h[f].defined THEN h[f].value ELSE 0
              readability == IF nav.pageData.fleschScore = 0 THEN 50 * One
                             ELSE nav.pageData.fleschScore * One
              sum == Mul(V("contentQuality"), 2500) + Mul(readability, 1500)
                     + Mul(V("mediaRichness"), 1500) + Mul(V("interactivity"), 1000)
                     + Mul(V("personalRelevance"), 2000) + Mul(V("timeliness"), 1000)
                     + Mul(V("socialSignals"), 500)
          IN  /\ nav.analysis.score >= 0
              /\ nav.analysis.score <= One
              /\ nav.analysis.score =
                    IF sum < 0 THEN 0 ELSE IF sum > One THEN One ELSE sum

(* C25: every mood label inferUserMood returns and every label in the mood
   history is one of focused, impatient, exploring, productive, relaxed,
   neutral, distracted, at every time of day and on every day of the week. *)
C25_MoodLabels ==
    /\ lastMood.mood \in { "focused", "impatient", "exploring", "productive",
                           "relaxed", "neutral", "distracted" }
    /\ \A i \in 1..Len(userMoodHistory) :
          userMoodHistory[i].mood \in
              { "focused", "impatient", "exploring", "productive", "relaxed",
                "neutral", "distracted" }

C25_Witness ==
    /\ Len(userMoodHistory) = 2
    /\ userMoodHistory[1].mood = "productive"
    /\ userMoodHistory[2].mood = "neutral"
    /\ getHours(userMoodHistory[2].timestamp) = 10
    /\ getDay(userMoodHistory[2].timestamp) = 0
    /\ lastMood.mood = "neutral"

(* C26: with several handlers that call inferUserMood in flight at the same
   time, every call adds exactly one sample to the mood history: the history
   holds one sample per call made, in the order of the calls, cut to the last
   50. *)
C26_OneSamplePerRequest ==
    LET calls == requests.prior + IssuedUpTo(Len(requests.handlers))
    IN  /\ Len(userMoodHistory) = IF calls > 50 THEN 50 ELSE calls
        /\ Len(moodCalls) = calls
        /\ \A i \in 1..Len(userMoodHistory) :
              userMoodHistory[i] =
                  moodCalls[Len(moodCalls) - Len(userMoodHistory) + i]

C26_Witness ==
    /\ Len(requests.handlers) = 2
    /\ requests.handlers[1].kind = "getProactiveInsights"
    /\ requests.handlers[1].pc = "done"
    /\ requests.handlers[2].pc = "done"
    /\ requests.prior + IssuedUpTo(2) > 50
    /\ Len(userMoodHistory) = 50
    /\ userMoodHistory[50].timestamp = 1

(* how many times one call of updateInterests writes topic t: once per
   keyword that lower-cases to t, once more when the category does *)
TimesWritten(analysis, t) ==
    Cardinality({ i \in 1..Len(analysis.keywords) :
                    toLowerCase(analysis.keywords[i]) = t })
    + (IF analysis.category # "" /\ toLowerCase(analysis.category) = t
       THEN 1 ELSE 0)

(* C27 as stated: a visit carrying an engagement that finds an interest for a
   topic it names once leaves its strength at
   clamp(old*0.95 + engagement*relevance*0.1, 0, 1), relevance being 0.5 when
   the topic is a keyword and 0.7 when it is the category, whatever the other
   fields of the analysis are. *)
C27_UpdateRule ==
    [][ (visitsDone' = visitsDone + 1 /\ lastVisit'.analysis.engagement # 0)
        => LET a == lastVisit'.analysis
           IN  \A t \in AllTopics :
                 ((\E i \in 1..Len(db.interests) : db.interests[i].topic = t)
                    /\ TimesWritten(a, t) = 1)
                 => LET old == StrengthOf(db.interests, t)
                        relevance == IF a.category # "" /\ toLowerCase(a.category) = t
                                     THEN 7000 ELSE 5000
                        raw == Mul(old, 9500) + Mul(Mul(a.engagement, relevance), 1000)
                    IN  StrengthOf(db'.interests, t) =
                            (IF raw < 0 THEN 0 ELSE Min2(One, raw)) ]_vars

(* the part of C27 that holds: the same rule for visits whose analysis
   carries no relevance field *)
C27_WithoutRelevanceField ==
    [][ (visitsDone' = visitsDone + 1 /\ lastVisit'.analysis.engagement # 0
           /\ lastVisit'.analysis.relevance = 0)
        => LET a == lastVisit'.analysis
           IN  \A t \in AllTopics :
                 ((\E i \in 1..Len(db.interests) : db.interests[i].topic = t)
                    /\ TimesWritten(a, t) = 1)
                 => LET old == StrengthOf(db.interests, t)
                        relevance == IF a.category # "" /\ toLowerCase(a.category) = t
                                     THEN 7000 ELSE 5000
                        raw == Mul(old, 9500) + Mul(Mul(a.engagement, relevance), 1000)
                    IN  StrengthOf(db'.interests, t) =
                            (IF raw < 0 THEN 0 ELSE Min2(One, raw)) ]_vars

(* C28 as stated: in every reachable state the last evolution entry of every
   interest carries the interest's current strength (every strength update,
   keyword-level or category-level, appends one entry). *)
C28_EvolutionTracksStrength ==
    \A i \in 1..Len(db.interests) :
        LET r == db.interests[i]
        IN  /\ Len(r.evolution) > 0
            /\ r.evolution[Len(r.evolution)].strength = r.strength

(* the part of C28 that holds: a visit that names a topic as a keyword only
   appends one evolution entry per update, and the last entry carries the
   current strength *)
C28_KeywordUpdatesAppend ==
    [][ (visitsDone' = visitsDone + 1)
        => LET a == lastVisit'.analysis
           IN  \A i \in 1..Len(db.interests) :
                 LET old == db.interests[i]
                     new == db'.interests[i]
                     t == old.topic
                 IN  (a.category = "" \/ toLowerCase(a.category) # t)
                     => /\ Len(new.evolution) = Len(old.evolution) + TimesWritten(a, t)
                        /\ (TimesWritten(a, t) > 0
                              /\ old.evolution[Len(old.evolution)].strength = old.strength)
                           => new.evolution[Len(new.evolution)].strength = new.strength ]_vars

(* C29: a visit that names a topic which has no interest record leaves
   exactly one record for it; the record's first evolution entry carries the
   initial strength, engagement*0.3 when the topic is among the keywords and
   engagement*0.5 when it is the category only (engagement being the call's
   engagement, analysis.engagement or 0.5 without one), and when the visit
   names the topic once that is the record's strength and only entry. *)
C29_NewInterest ==
    [][ (visitsDone' = visitsDone + 1)
        => LET a == lastVisit'.analysis
               isKeyword(t) == \E i \in 1..Len(a.keywords) :
                                  toLowerCase(a.keywords[i]) = t
           IN  \A t \in AllTopics :
                 ((\A i \in 1..Len(db.interests) : db.interests[i].topic # t)
                    /\ TimesWritten(a, t) > 0)
                 => LET S == { i \in 1..Len(db'.interests) :
                                  db'.interests[i].topic = t }
                        initial == IF isKeyword(t)
                                   THEN Mul(EngagementOf(a), 3000)
                                   ELSE Mul(EngagementOf(a), 5000)
                    IN  /\ Cardinality(S) = 1
                        /\ \A i \in S :
                             LET r == db'.interests[i]
                             IN  /\ Len(r.evolution) >= 1
                                 /\ r.evolution[1].strength = initial
                                 /\ TimesWritten(a, t) = 1
                                    => /\ r.strength = initial
                                       /\ Len(r.evolution) = 1 ]_vars

(* one visit on an empty profile created a keyword interest and a category
   interest *)
C29_Witness ==
    /\ visitsDone = 1
    /\ Len(db.interactions) = 1
    /\ Len(db.interests) = 2
    /\ db.interests[1].topic = "ai" /\ Len(db.interests[1].evolution) = 1
    /\ db.interests[2].topic = "news" /\ Len(db.interests[2].evolution) = 1
    /\ db.interests[1].strength = Mul(EngagementOf(lastVisit.analysis), 3000)
    /\ db.interests[2].strength = Mul(EngagementOf(lastVisit.analysis), 5000)

(* C30 as stated: after handlePageNavigation has analysed a page and
   updateFromPageVisit has stored the visit, the profile holds an interest
   record for the primary category of the analysis and for each of its
   keywords. *)
C30_PipelineInterests ==
    (nav.kind = "navigation" /\ ~nav.threw /\ ~nav.storeFailed)
    => LET content == nav.analysis.content
           Recorded(topic) == \E i \in 1..Len(db.interests) :
                                 db.interests[i].topic = toLowerCase(topic)
       IN  /\ Recorded(content.category.primary)
           /\ \A k \in 1..Len(content.keywords) : Recorded(content.keywords[k])

(* what the pipeline does instead: a stored navigation adds an interaction
   and a behavior pattern, and leaves the interests as they were *)
C30_PipelineLeavesInterests ==
    [][ (nav'.count = nav.count + 1 /\ nav'.kind = "navigation")
        => /\ db'.interests = db.interests
           /\ (~nav'.threw /\ ~nav'.storeFailed)
              => Len(db'.interactions) = Len(db.interactions) + 1 ]_vars

(* the keyword-hit count of the i-th category of the table for a text *)
HitCount(text, i) == Cardinality(ContentCategories[i].keywords \cap KeywordsIn(text))

(* the category the stated rule selects: the first category of the table with
   the highest hit count, 'general' when no keyword occurs *)
HighestFirst(text) ==
    LET N == 1..Len(ContentCategories)
        top == CHOOSE n \in { HitCount(text, i) : i \in N } :
                  \A i \in N : HitCount(text, i) <= n
        first == CHOOSE i \in N :
                    /\ HitCount(text, i) = top
                    /\ \A j \in N : HitCount(text, j) = top => i <= j
    IN  [primary |-> IF top = 0 THEN "general" ELSE ContentCategories[first].category,
         score |-> top]

(* C31 as stated: a call of classifyContent returns the category with the
   highest keyword-hit count, the first of them in table order on a tie,
   'general' without a hit, and confidence min(1, hitCount/3). *)
C31_ClassifyRule ==
    nav.kind = "classifyContent"
    => /\ ~nav.threw
       /\ nav.analysis.primary = HighestFirst(nav.pageData.text).primary
       /\ nav.analysis.confidence =
             Min2(One, (HighestFirst(nav.pageData.text).score * One) \div 3)

(* the part of C31 that holds: when the loop over the table has ended,
   bestCategory and bestScore are those of the stated rule *)
C31_ScanRule ==
    nav.kind = "classifyContent"
    => /\ nav.pageData.bestCategory = HighestFirst(nav.pageData.text).primary
       /\ nav.pageData.bestScore = HighestFirst(nav.pageData.text).score

(* a score in [0,100] whose bucket is 'easy' exactly when it is >= 70, 'hard'
   exactly when it is <= 30 and 'medium' otherwise *)
BucketConsistent(r) ==
    /\ AtLeast(r.fleschScore, 0) /\ AtMost(r.fleschScore, 100)
    /\ r.difficulty = "easy" <=> AtLeast(r.fleschScore, 70)
    /\ r.difficulty = "hard" <=> AtMost(r.fleschScore, 30)
    /\ r.difficulty = "medium"
          <=> (~AtLeast(r.fleschScore, 70) /\ ~AtMost(r.fleschScore, 30))

(* C32 as stated: a call of analyzeReadability returns a Flesch score within
   [0,100] and the difficulty bucket of that score: 'easy' exactly when it is
   >= 70, 'hard' exactly when it is <= 30, 'medium' otherwise. *)
C32_ReadabilityBucket ==
    nav.kind = "analyzeReadability"
    => /\ ~nav.threw
       /\ BucketConsistent(nav.analysis)

(* the part of C32 that holds: for a text with at least one word, the score
   and the bucket computed before the result is built are consistent *)
C32_LocalsConsistent ==
    (nav.kind = "analyzeReadability" /\ nav.pageData.counts.words > 0)
    => BucketConsistent(nav.pageData.locals)

(* C33: every visit appends one behavior-pattern record with frequency 1 and
   leaves the earlier records as they were, so there are as many
   behavior-pattern records as visits (one interaction is recorded per
   visit), also when two visits have the same snapshot. *)
C33_OnePatternPerVisit ==
    /\ [](Len(db.behaviorPatterns) = Len(db.interactions))
    /\ [][ (visitsDone' = visitsDone + 1)
           => /\ Len(db'.behaviorPatterns) = Len(db.behaviorPatterns) + 1
              /\ SubSeq(db'.behaviorPatterns, 1, Len(db.behaviorPatterns))
                    = db.behaviorPatterns
              /\ db'.behaviorPatterns[Len(db'.behaviorPatterns)].frequency = 1 ]_vars

(* two visits with the same snapshot have left two records *)
C33_Witness ==
    /\ visitsDone = 2
    /\ LET n == Len(db.behaviorPatterns)
       IN  /\ n >= 2
           /\ db.behaviorPatterns[n].pattern = db.behaviorPatterns[n - 1].pattern
           /\ db.behaviorPatterns[n].frequency = 1
           /\ db.behaviorPatterns[n - 1].frequency = 1

(* C34: getPersonalizedContent reads at most 10 interests, and as many as the
   store holds up to 10; no interest it leaves out is stronger than one it
   reads; the recommended topics it returns are the interests it read, in
   non-increasing order of strength, and the interest-based suggestions are
   built from the first 5 of them, in the same order. *)
C34_TopInterests ==
    /\ []((personalized.pc = "idle" /\ ~personalized.threw
             /\ "recommendedTopics" \in DOMAIN personalized.value)
          => LET topics == personalized.value.recommendedTopics
                 suggestions == personalized.value.personalizedSuggestions
                 based == { i \in 1..Len(suggestions) :
                               suggestions[i].type = "interest_based" }
             IN  /\ Len(topics) <= 10
                 /\ \A i, j \in 1..Len(topics) :
                       i < j => topics[i].strength >= topics[j].strength
                 /\ based = 1..Min2(5, Len(topics))
                 /\ \A i \in based :
                       /\ suggestions[i].topic = topics[i].topic
                       /\ suggestions[i].strength = topics[i].strength)
    /\ [][ (personalized.pc = "idle" /\ personalized'.pc = "preferences")
           => LET read == personalized'.interests
                  ids == { read[i].id : i \in 1..Len(read) }
              IN  /\ Len(read) = Min2(10, Len(db.interests))
                  /\ Cardinality(ids) = Len(read)
                  /\ \A i \in 1..Len(read) : read[i] = db.interests[read[i].id]
                  /\ \A k \in 1..Len(db.interests) :
                        k \notin ids
                        => \A i \in 1..Len(read) :
                              db.interests[k].strength <= read[i].strength ]_vars
    /\ [][ (personalized.pc = "traits" /\ personalized'.pc = "idle"
              /\ ~personalized'.threw)
           => LET read == personalized.interests
                  topics == personalized'.value.recommendedTopics
              IN  /\ Len(topics) = Len(read)
                  /\ \A i \in 1..Len(read) :
                        /\ topics[i].topic = read[i].topic
                        /\ topics[i].strength = read[i].strength ]_vars

(* a call has returned 10 topics of different strengths from a store with
   more than 10 interests *)
C34_Witness ==
    /\ personalized.pc = "idle" /\ ~personalized.threw
    /\ "recommendedTopics" \in DOMAIN personalized.value
    /\ Len(db.interests) > 10
    /\ Len(personalized.value.recommendedTopics) = 10
    /\ personalized.value.recommendedTopics[1].strength
          > personalized.value.recommendedTopics[10].strength
    /\ \E i \in 1..Len(personalized.value.personalizedSuggestions) :
          personalized.value.personalizedSuggestions[i].type = "interest_based"

(* C35: in a profile built by updateFromPageVisit every stored personality
   trait score lies in [0.5, 0.65], that of neuroticism in [0.5, 0.55], and
   the adaptive interface settings getPersonalizedContent returns are the
   defaults. *)
C35_DefaultSettings ==
    /\ \A i \in 1..Len(db.personalityTraits) :
          LET r == db.personalityTraits[i]
          IN  /\ r.score >= 5000 /\ r.score <= 6500
              /\ r.trait = "neuroticism" => r.score <= 5500
    /\ (personalized.pc = "idle" /\ ~personalized.threw
          /\ "adaptiveInterface" \in DOMAIN personalized.value)
       => personalized.value.adaptiveInterface =
             [complexity |-> "medium", colorScheme |-> "balanced",
              informationDensity |-> "medium", interactionStyle |-> "standard"]

(* the settings were returned for a profile whose openness and neuroticism
   are at the upper ends of their ranges *)
C35_Witness ==
    /\ personalized.pc = "idle" /\ ~personalized.threw
    /\ "adaptiveInterface" \in DOMAIN personalized.value
    /\ visitsDone = MaxTraitVisits
    /\ \E i, j \in 1..Len(db.personalityTraits) :
          /\ db.personalityTraits[i].trait = "openness"
          /\ db.personalityTraits[i].score = 6500
          /\ db.personalityTraits[j].trait = "neuroticism"
          /\ db.personalityTraits[j].score = 5500

(* C36: no step changes the category or the preferred value of a stored
   content preference; a visit changes at most the weight, the confidence and
   lastUpdated of the records that exist, whatever values it observes. *)
C36_PreferenceFixed ==
    [][ /\ Len(db'.preferences) >= Len(db.preferences)
        /\ \A i \in 1..Len(db.preferences) :
              /\ db'.preferences[i].id = db.preferences[i].id
              /\ db'.preferences[i].category = db.preferences[i].category
              /\ db'.preferences[i].preference = db.preferences[i].preference ]_vars

(* a visit observed complexity 'high' and lowered the weight of the stored
   preference 'medium', which is still the preferred value *)
C36_Witness ==
    /\ visitsDone > 0
    /\ lastVisit.analysis.complexity = "high"
    /\ \E i \in 1..Len(db.preferences) :
          /\ db.preferences[i].category = "complexity"
          /\ db.preferences[i].preference = "medium"
          /\ db.preferences[i].weight < One - 100
          /\ db.preferences[i].confidence > 1000

(* C37: after any sequence of createTab, setActiveTab and closeTab calls,
   activeTabId is null or the id of a tab in the map, no two tabs of the map
   have the same id, and no id was handed out twice. *)
C37_ActiveTabValid ==
    /\ tabManager.activeTabId = 0 \/ tabManager.activeTabId \in TabIds(tabManager)
    /\ Cardinality(TabIds(tabManager)) = Len(tabManager.tabs)
    /\ \A i, j \in 1..Len(tabManager.issued) :
          tabManager.issued[i] = tabManager.issued[j] => i = j
    /\ \A i \in 1..Len(tabManager.tabs) :
          \E j \in 1..Len(tabManager.issued) :
              tabManager.issued[j] = tabManager.tabs[i].id

(* the active tab was closed while another tab was open, and the other tab is
   the active one now *)
C37_Witness ==
    /\ tabManager.last.op = "closeTab" /\ tabManager.last.returned = TRUE
    /\ Len(tabManager.tabs) >= 2
    /\ tabManager.activeTabId \in TabIds(tabManager)
    /\ tabManager.activeTabId < tabManager.last.tabId
    /\ tabManager.last.tabId \notin TabIds(tabManager)

(* C38: closeTab on the id of a tab returns true, removes that tab and no
   other, and leaves at least one tab; when it was the only tab, the map
   holds one tab with an id never handed out before, which is the active tab.
   closeTab on any other id returns false and changes nothing. *)
C38_CloseTab ==
    [][ tabManager'.last.op = "closeTab"
        => LET tabId == tabManager'.last.tabId
           IN  IF tabId \in TabIds(tabManager)
               THEN /\ tabManager'.last.returned = TRUE
                    /\ tabId \notin TabIds(tabManager')
                    /\ TabIds(tabManager) \ {tabId} \subseteq TabIds(tabManager')
                    /\ Len(tabManager'.tabs) >= 1
                    /\ TabIds(tabManager) = {tabId}
                       => /\ Len(tabManager'.tabs) = 1
                          /\ tabManager'.activeTabId = tabManager'.tabs[1].id
                          /\ \A j \in 1..Len(tabManager.issued) :
                                tabManager.issued[j] # tabManager'.tabs[1].id
                    /\ TabIds(tabManager) # {tabId}
                       => TabIds(tabManager') = TabIds(tabManager) \ {tabId}
               ELSE /\ tabManager'.last.returned = FALSE
                    /\ tabManager'.tabs = tabManager.tabs
                    /\ tabManager'.activeTabId = tabManager.activeTabId
                    /\ tabManager'.tabCounter = tabManager.tabCounter ]_vars

(* the only tab was closed and a fresh tab is the active one *)
C38_Witness ==
    /\ tabManager.last.op = "closeTab" /\ tabManager.last.returned = TRUE
    /\ Len(tabManager.tabs) = 1
    /\ tabManager.tabs[1].id = tabManager.tabCounter
    /\ tabManager.activeTabId = tabManager.tabCounter
    /\ tabManager.tabCounter > tabManager.last.tabId

(* C39: after every recordInteraction the in-memory list recentInteractions
   holds at most 100 entries, and they are the last recorded interactions
   (all of them when fewer than 100 were recorded), in the order in which
   they were recorded. *)
C39_RecentHundred ==
    LET n == Len(db.interactions)
        m == Len(recentInteractions)
    IN  /\ m <= 100
        /\ m = Min2(100, n)
        /\ \A i \in 1..m :
              /\ recentInteractions[i].type = db.interactions[n - m + i].type
              /\ recentInteractions[i].data = JSONparse(db.interactions[n - m + i].data)

(* more than 100 interactions were recorded, of different types at the end *)
C39_Witness ==
    /\ Len(db.interactions) > 100
    /\ Len(recentInteractions) = 100
    /\ recentInteractions[100].type # recentInteractions[99].type
    /\ recentInteractions[1].type = db.interactions[Len(db.interactions) - 99].type

====
